---- MODULE Spec2Model ----
(***************************************************************************)
(* Model of the airaces race server (package main under src/server):       *)
(* the physics/game loop, the SendPlayerInput input gate and the           *)
(* StreamRaceUpdates fan-out, all serialised by CarServer.mu.              *)
(*                                                                         *)
(* Numbers.  The code computes in float32.  The model uses integers:       *)
(*   time      dt in milliseconds                                          *)
(*   speed     in 1/1000 of a unit per second                              *)
(*   heading   in 1/1000 of a degree                                       *)
(*   position  in 1/1000 of a unit                                         *)
(*   progress  as the index of the closest centerline point, i.e. in       *)
(*             units of 1/TrackLen (0.9 is 9*TrackLen/10)                  *)
(* sin and cos are Bhaskara's rational approximation (exact at multiples   *)
(* of 90 degrees).  Wall-clock bookkeeping that never reaches a client     *)
(* (lapTimes, bestLapTime, currentLapStart, log output) is left out.       *)
(***************************************************************************)
EXTENDS Integers, Sequences, FiniteSets, TLC

(***************************************************************************)
(* Bounds of the model                                                     *)
(***************************************************************************)
MaxTick == 3         \* ticks of a run with input submissions
MaxStreamTick == 11  \* ticks of a run with subscribers
MaxCalls == 2        \* SendPlayerInput calls of a run
MaxDriveTick == 5    \* ticks of a run with a driving client
MaxDriveCalls == 2   \* SendPlayerInput calls of that client
MaxFinishTick == 7   \* ticks of a run to the finish
MaxFinishCalls == 3  \* SendPlayerInput calls of a run to the finish

(***************************************************************************)
(* Program constants                                                       *)
(***************************************************************************)
numCars == 5
totalLaps == 3
raceTime == 600
maxSpeed == 300
acceleration == 200
brakeForce == 400
friction == 50
turnSpeed == 180
chanCap == 10
observersID == "OBSERVER"
observerstoken == "OBSERVERTOKEN"
raceType == "RACEBYLAPS"

Milli == 1000

\* string(rune('A' + i))
RosterNames == <<"A", "B", "C", "D", "E">>
carInfos == [i \in 1..numCars |-> [carId |-> RosterNames[i]]]
CarIds == {carInfos[i].carId : i \in 1..numCars}

\* the goroutines that gRPC runs handlers on
Callers == {"h1", "h2"}
Streams == {"s1", "s2"}

(***************************************************************************)
(* Track geometry: a closed square circuit of 12 centerline samples, 100   *)
(* units apart, half-width 20 on both sides.                               *)
(***************************************************************************)
Pt(x, y) == [X |-> x * Milli, Y |-> y * Milli, Z |-> 0]

track ==
  [LeftBoundary |->
     << Pt(0, 20), Pt(100, 20), Pt(200, 20), Pt(280, 0),
        Pt(280, 100), Pt(280, 200), Pt(300, 280), Pt(200, 280),
        Pt(100, 280), Pt(20, 300), Pt(20, 200), Pt(20, 100) >>,
   RightBoundary |->
     << Pt(0, -20), Pt(100, -20), Pt(200, -20), Pt(320, 0),
        Pt(320, 100), Pt(320, 200), Pt(300, 320), Pt(200, 320),
        Pt(100, 320), Pt(-20, 300), Pt(-20, 200), Pt(-20, 100) >>]

TrackLen == Len(track.LeftBoundary)

\* float32 NaN, which a client can send in any field of a PlayerInput: every
\* comparison with it except != is false, every sum and product with it is
\* NaN.  It is a number outside the range of the model's other values.
NaN == 0 - 2000000000
IsNaN(x) == x = NaN
AddF(x, y) == IF IsNaN(x) \/ IsNaN(y) THEN NaN ELSE x + y

\* x / y rounded toward zero, as the float result truncated to the grid
Quot(x, y) == IF x >= 0 THEN x \div y ELSE 0 - ((0 - x) \div y)

\* the centerline: the midpoints of the boundary pairs
Centerline ==
  [i \in 1..TrackLen |->
     [X |-> (track.LeftBoundary[i].X + track.RightBoundary[i].X) \div 2,
      Y |-> (track.LeftBoundary[i].Y + track.RightBoundary[i].Y) \div 2]]

\* squared distance from pos to the i-th centerline point (1-based), taken
\* on a grid of 1/10 unit so that the squares stay within 32 bits
CenterDist(pos, i) ==
  LET dx == Quot(pos.X - Centerline[i].X, 100)
      dy == Quot(pos.Y - Centerline[i].Y, 100)
  IN IF IsNaN(pos.X) \/ IsNaN(pos.Y) THEN NaN ELSE dx * dx + dy * dy

\* stands for math.MaxFloat32
MaxDist == 2147483647

RECURSIVE ClosestFromLast(_, _, _, _)
ClosestFromLast(pos, i, closestIdx, minDist) ==
  IF i > TrackLen THEN closestIdx
  ELSE CHOOSE r \in
         { IF ~IsNaN(dist) /\ dist <= minDist
           THEN ClosestFromLast(pos, i + 1, i - 1, dist)
           ELSE ClosestFromLast(pos, i + 1, closestIdx, minDist) :
             dist \in {CenterDist(pos, i)} } : TRUE

\* the scan `for i, leftPoint := range s.track.LeftBoundary` from the i-th
\* point on; closestIdx is 0-based as in the code
RECURSIVE ClosestFrom(_, _, _, _)
ClosestFrom(pos, i, closestIdx, minDist) ==
  IF i > TrackLen THEN closestIdx
  ELSE CHOOSE r \in
         { IF ~IsNaN(dist) /\ dist < minDist
           THEN ClosestFrom(pos, i + 1, i - 1, dist)
           ELSE ClosestFrom(pos, i + 1, closestIdx, minDist) :
             dist \in {CenterDist(pos, i)} } : TRUE

\* the code returns closestIdx / len(LeftBoundary); the model keeps the
\* numerator
calculateTrackProgress(pos) ==
  CHOOSE r \in {ClosestFrom(p, 1, 0, MaxDist) : p \in {pos}} : TRUE

\* progress > 0.9 and progress < 0.1 on the index representation
Above09High(p) == p * 100 > 95 * TrackLen
Above09(p) == p * 10 > 9 * TrackLen
Below01Half(p) == p * 10 < 5 * TrackLen
Below01(p) == p * 10 < TrackLen

(***************************************************************************)
(* sin and cos, scaled by 1000, of a heading in millidegrees in [0, 360000)*)
(***************************************************************************)
SinHalf(d) ==
  LET x == d \div 100
      p == x * (1800 - x)
  IN (2000 * p) \div (2025000 - p \div 2)
Sin(h) == IF h < 180000 THEN SinHalf(h) ELSE 0 - SinHalf(h - 180000)
Cos(h) == Sin((h + 90000) % 360000)

RECURSIVE WrapUp(_)
WrapUp(h) == IF h < 0 THEN WrapUp(h + 360000) ELSE h
RECURSIVE WrapDown(_)
WrapDown(h) == IF h >= 360000 THEN WrapDown(h - 360000) ELSE h

(***************************************************************************)
(* updateCarPhysics(state, input, dt)                                      *)
(***************************************************************************)
SpeedStepNoFriction(speed, input, dt) ==
  IF input.throttle > 0 THEN speed + acceleration * input.throttle * dt
  ELSE IF input.brake > 0 THEN speed - brakeForce * input.brake * dt
  ELSE speed

SpeedStepBrakeFirst(speed, input, dt) ==
  IF input.brake > 0 THEN speed - brakeForce * input.brake * dt
  ELSE IF input.throttle > 0 THEN speed + acceleration * input.throttle * dt
  ELSE speed - friction * dt

SpeedStep(speed, input, dt) ==
  IF input.throttle > 0 THEN speed + acceleration * input.throttle * dt
  ELSE IF input.brake > 0 THEN speed - brakeForce * input.brake * dt
  ELSE speed - friction * dt

ClampSpeedNoFloor(v) ==
  IF v > maxSpeed * Milli THEN maxSpeed * Milli ELSE v

ClampSpeedNoCeiling(v) == IF v < 0 THEN 0 ELSE v

ClampSpeed(v) ==
  LET lo == IF v < 0 THEN 0 ELSE v
  IN IF lo > maxSpeed * Milli THEN maxSpeed * Milli ELSE lo

SteerAnySpeed(heading, speed, input, dt) ==
  IF input.steering # 0
  THEN IF IsNaN(heading) \/ IsNaN(input.steering) THEN NaN
       ELSE LET turnRate == Quot(turnSpeed * speed, maxSpeed)
                turned == heading
                          + Quot(turnRate * input.steering * dt, Milli)
            IN WrapDown(WrapUp(turned))
  ELSE heading

Steer(heading, speed, input, dt) ==
  IF speed > 10 * Milli /\ input.steering # 0
  THEN IF IsNaN(heading) \/ IsNaN(input.steering) THEN NaN
       ELSE LET turnRate == Quot(turnSpeed * speed, maxSpeed)
                turned == heading
                          + Quot(turnRate * input.steering * dt, Milli)
            IN WrapDown(WrapUp(turned))
  ELSE heading

updateCarPhysics(state, input, dt) ==
  LET speed == ClampSpeed(SpeedStep(state.Speed, input, dt))
      heading == Steer(state.Heading, speed, input, dt)
      dx == IF IsNaN(heading) THEN NaN
            ELSE Quot(Quot(Cos(heading) * speed, Milli) * dt, Milli)
      dy == IF IsNaN(heading) THEN NaN
            ELSE Quot(Quot(Sin(heading) * speed, Milli) * dt, Milli)
      pos == [X |-> AddF(state.Position.X, dx),
              Y |-> AddF(state.Position.Y, dy),
              Z |-> state.Position.Z]
      currentProgress == calculateTrackProgress(pos)
      lapped == /\ Above09(state.lastProgress)
                /\ Below01(currentProgress)
                /\ speed > 0
  IN [state EXCEPT !.Speed = speed,
                   !.Heading = heading,
                   !.Position = pos,
                   !.Lap = IF lapped THEN @ + 1 ELSE @,
                   !.lastProgress = currentProgress]

(***************************************************************************)
(* Server state (type CarServer) and the position of every goroutine       *)
(***************************************************************************)
VARIABLES
  mu,            \* holder of the write lock of CarServer.mu, or "free"
  gameTick,
  carStates,     \* carId -> CarStateExtended
  playerInput,   \* carId -> staged PlayerInput
  authTokens,    \* carId -> token
  loading,       \* the locals of loadTrackFromCSV while main runs it
  penalties,     \* carId -> CarPenalty, for the cars that have one
  raceStatus,
  raceTimeLeft,
  clients,       \* the registered client channels
  mailbox,       \* channel -> buffered RaceUpdates, oldest first
  closed,        \* channel -> close(clientChan) has run
  panicked,      \* the process died on a send to or close of a closed channel
  \* physicsLoop
  tpc, dt, elapsed,
  \* SendPlayerInput calls
  cpc,           \* call -> where the handler is
  creq,          \* call -> the request it is serving
  resp,          \* call -> the InputAck of its last completed call
  calls,
  \* StreamRaceUpdates calls
  spc, holding,
  \* history
  atTickStart,   \* playerInput as it was when the running/last tick began
  contending,    \* the calls that were waiting for s.mu.Lock() at that time
  lastAccepted,  \* carId -> input of the latest completed staging write
  lastSeen,      \* channel -> tick of the last update its stream took over,
                 \*            gameTick at registration before the first
  dropped,       \* channel -> tick numbers of the updates discarded for it
  closeCount     \* channel -> number of times it was closed

serverVars == <<gameTick, carStates, playerInput, authTokens, loading,
                penalties, raceStatus, raceTimeLeft>>
chanVars == <<clients, mailbox, closed, panicked>>
tickVars == <<tpc, dt, elapsed>>
callVars == <<cpc, creq, resp, calls>>
streamVars == <<spc, holding>>
histVars == <<atTickStart, contending, lastAccepted, lastSeen, dropped,
              closeCount>>
vars == <<mu, serverVars, chanVars, tickVars, callVars, streamVars,
          histVars>>

Null == [none |-> TRUE]
\* loadTrackFromCSV is not running: it has returned before the server starts
NotLoading == [pc |-> "returned"]
NoInput == [steering |-> 0, throttle |-> 0, brake |-> 0, timestamp |-> 0]
TokenOf(carId) == "demo-token-" \o carId

\* elapsed times between two ticks that the model tries, in milliseconds
DtValues == {500}

\* the control inputs that the model's clients send
InputChoices ==
  { [steering |-> 0, throttle |-> 1, brake |-> 0, timestamp |-> 2],
    [steering |-> 1, throttle |-> 1, brake |-> 1, timestamp |-> 1] }

\* the cars whose clients are active, the tokens they try (their own,
\* another car's, the observers') and the requests they may send
Drivers == {"A"}
TokensTried == {TokenOf("A"), TokenOf("B"), observerstoken}
Requests ==
  { [carId |-> c, token |-> t, input |-> i] :
      c \in Drivers \cup {observersID},
      t \in TokensTried,
      i \in InputChoices }

(***************************************************************************)
(* NewCarServer                                                            *)
(***************************************************************************)
NewCarState(i) ==
  [CarId |-> carInfos[i].carId,
   Status |-> "RACING",
   Position |-> [X |-> track.LeftBoundary[1].X,
                 Y |-> track.LeftBoundary[1].Y + (i - 1) * 10 * Milli,
                 Z |-> 0],
   Heading |-> 0,
   Speed |-> 0,
   Lap |-> 0,
   lastProgress |-> 0]

IndexOf(carId) == CHOOSE i \in 1..numCars : carInfos[i].carId = carId

\* s.authTokens: one token for every roster car
NewAuthTokensWithObserver ==
  [c \in CarIds \cup {observersID} |->
     IF c = observersID THEN observerstoken ELSE TokenOf(c)]

NewAuthTokens == [c \in CarIds |-> TokenOf(c)]

Init ==
  /\ mu = "free"
  /\ gameTick = 0
  /\ carStates = [c \in CarIds |-> NewCarState(IndexOf(c))]
  /\ playerInput = [c \in CarIds |-> NoInput]
  /\ authTokens = NewAuthTokens
  /\ loading = NotLoading
  /\ penalties = [c \in {} |-> Null]
  /\ raceStatus = [Status |-> "racing", TotalLaps |-> totalLaps, GameTick |-> 0]
  /\ raceTimeLeft = 0
  /\ clients = {}
  /\ mailbox = [s \in Streams |-> <<>>]
  /\ closed = [s \in Streams |-> FALSE]
  /\ panicked = FALSE
  /\ tpc = "wait" /\ dt = 0 /\ elapsed = 0
  /\ cpc = [h \in Callers |-> "idle"]
  /\ creq = [h \in Callers |-> Null]
  /\ resp = [h \in Callers |-> Null]
  /\ calls = 0
  /\ spc = [s \in Streams |-> "idle"]
  /\ holding = [s \in Streams |-> Null]
  /\ contending = {}
  /\ atTickStart = [c \in CarIds |-> NoInput]
  /\ lastAccepted = [c \in CarIds |-> NoInput]
  /\ lastSeen = [s \in Streams |-> 0]
  /\ dropped = [s \in Streams |-> {}]
  /\ closeCount = [s \in Streams |-> 0]

(***************************************************************************)
(* loadTrackFromCSV, which main runs before it constructs the server.      *)
(* The input is what csv.Reader.ReadAll returns: the reader gives every    *)
(* record the field count of the first (FieldsPerRecord = 0), so the       *)
(* records of one file have 3, 4 or 5 fields each.  The tangent is taken   *)
(* in whole units and its length rounded down.                             *)
(***************************************************************************)
MaxRecords == 3  \* records of a track file

LoadInputs ==
  { [k \in DOMAIN centers |->
       [fields |-> n,
        centerX |-> centers[k][1] * Milli, centerY |-> centers[k][2] * Milli,
        widthRight |-> 20 * Milli, widthLeft |-> 10 * Milli]] :
      n \in {3, 4, 5},
      centers \in UNION {[1..len -> {<<0, 0>>, <<100, 0>>, <<100, 100>>}] :
                           len \in 0..MaxRecords} }

\* float32(math.Sqrt(float64(s))), rounded down
Isqrt(s) == CHOOSE r \in 0..s : r * r <= s /\ (r + 1) * (r + 1) > s

\* lines 58-101: the boundary points of the i-th track point (0-based)
BoundaryPair(points, i) ==
  LET n == Len(points)
      point == points[i + 1]
      from == IF i = 0 THEN point ELSE points[i]
      to == IF i = 0 \/ i # n - 1 THEN points[i + 2] ELSE point
      dx == (to.centerX - from.centerX) \div Milli
      dy == (to.centerY - from.centerY) \div Milli
      length == Isqrt(dx * dx + dy * dy)
      nx == IF length > 0 THEN Quot(dx * Milli, length) ELSE dx * Milli
      ny == IF length > 0 THEN Quot(dy * Milli, length) ELSE dy * Milli
      perpX == 0 - ny
      perpY == nx
  IN [left |-> [X |-> point.centerX + Quot(perpX * point.widthLeft, Milli),
                Y |-> point.centerY + Quot(perpY * point.widthLeft, Milli),
                Z |-> 0],
      right |-> [X |-> point.centerX - Quot(perpX * point.widthRight, Milli),
                 Y |-> point.centerY - Quot(perpY * point.widthRight, Milli),
                 Z |-> 0]]

\* for _, record := range records: one record is skipped or parsed
LoadParse ==
  /\ loading.pc = "parse"
  /\ loading.i < Len(loading.records)
  /\ LET record == loading.records[loading.i + 1]
     IN loading' =
          [loading EXCEPT
             !.i = @ + 1,
             !.trackPoints =
                IF record.fields < 4 THEN @
                ELSE Append(@, [centerX |-> record.centerX,
                                centerY |-> record.centerY,
                                widthLeft |-> record.widthLeft,
                                widthRight |-> record.widthRight])]
  /\ UNCHANGED <<mu, gameTick, carStates, playerInput, authTokens,
                 penalties, raceStatus, raceTimeLeft, chanVars, tickVars,
                 callVars, streamVars, histVars>>

\* if len(trackPoints) == 0 { log.Fatal } and the two make calls
LoadCheck ==
  /\ loading.pc = "parse"
  /\ loading.i = Len(loading.records)
  /\ loading' =
       IF Len(loading.trackPoints) = 0
       THEN [loading EXCEPT !.pc = "fatal"]
       ELSE [loading EXCEPT
               !.pc = "boundaries", !.i = 0,
               !.left = [k \in 1..Len(loading.trackPoints) |-> Null],
               !.right = [k \in 1..Len(loading.trackPoints) |-> Null]]
  /\ UNCHANGED <<mu, gameTick, carStates, playerInput, authTokens,
                 penalties, raceStatus, raceTimeLeft, chanVars, tickVars,
                 callVars, streamVars, histVars>>

\* one iteration of the boundary loop; trackPoints[i+1] is read for the
\* first point and for every point but the last, and an index past the end
\* of the slice is a run-time panic
LoadBoundary ==
  /\ loading.pc = "boundaries"
  /\ loading.i < Len(loading.trackPoints)
  /\ loading' =
       IF (loading.i = 0 \/ loading.i # Len(loading.trackPoints) - 1)
          /\ loading.i + 2 > Len(loading.trackPoints)
       THEN [loading EXCEPT !.pc = "panic"]
       ELSE LET pair == BoundaryPair(loading.trackPoints, loading.i)
            IN [loading EXCEPT !.i = @ + 1,
                               !.left[loading.i + 1] = pair.left,
                               !.right[loading.i + 1] = pair.right]
  /\ UNCHANGED <<mu, gameTick, carStates, playerInput, authTokens,
                 penalties, raceStatus, raceTimeLeft, chanVars, tickVars,
                 callVars, streamVars, histVars>>

\* return &pb.TrackInfo{...}, nil
LoadReturn ==
  /\ loading.pc = "boundaries"
  /\ loading.i = Len(loading.trackPoints)
  /\ loading' = [loading EXCEPT !.pc = "returned"]
  /\ UNCHANGED <<mu, gameTick, carStates, playerInput, authTokens,
                 penalties, raceStatus, raceTimeLeft, chanVars, tickVars,
                 callVars, streamVars, histVars>>

\* main before NewCarServer: the loader starts on one of the inputs
InitLoad ==
  /\ \E records \in LoadInputs :
       loading = [pc |-> "parse", records |-> records, i |-> 0,
                  trackPoints |-> <<>>, left |-> <<>>, right |-> <<>>]
  /\ mu = "free"
  /\ gameTick = 0
  /\ carStates = [c \in CarIds |-> NewCarState(IndexOf(c))]
  /\ playerInput = [c \in CarIds |-> NoInput]
  /\ authTokens = NewAuthTokens
  /\ penalties = [c \in {} |-> Null]
  /\ raceStatus = [Status |-> "racing", TotalLaps |-> totalLaps, GameTick |-> 0]
  /\ raceTimeLeft = 0
  /\ clients = {}
  /\ mailbox = [s \in Streams |-> <<>>]
  /\ closed = [s \in Streams |-> FALSE]
  /\ panicked = FALSE
  /\ tpc = "wait" /\ dt = 0 /\ elapsed = 0
  /\ cpc = [h \in Callers |-> "idle"]
  /\ creq = [h \in Callers |-> Null]
  /\ resp = [h \in Callers |-> Null]
  /\ calls = 0
  /\ spc = [s \in Streams |-> "idle"]
  /\ holding = [s \in Streams |-> Null]
  /\ contending = {}
  /\ atTickStart = [c \in CarIds |-> NoInput]
  /\ lastAccepted = [c \in CarIds |-> NoInput]
  /\ lastSeen = [s \in Streams |-> 0]
  /\ dropped = [s \in Streams |-> {}]
  /\ closeCount = [s \in Streams |-> 0]

NextLoad == LoadParse \/ LoadCheck \/ LoadBoundary \/ LoadReturn

SpecLoad == InitLoad /\ [][NextLoad]_vars

(***************************************************************************)
(* createRaceUpdate (without the interval lists)                           *)
(***************************************************************************)
createRaceUpdateOldTick(states, pens, status, tick) ==
  [RaceStatus |-> status,
   Cars |-> [c \in DOMAIN states |->
               [CarId |-> states[c].CarId,
                Status |-> states[c].Status,
                Position |-> states[c].Position,
                Heading |-> states[c].Heading,
                Speed |-> states[c].Speed,
                Lap |-> states[c].Lap]],
   Penalties |-> pens,
   GameTick |-> tick - 1]

createRaceUpdateNoPenalties(states, pens, status, tick) ==
  [RaceStatus |-> status,
   Cars |-> [c \in DOMAIN states |->
               [CarId |-> states[c].CarId,
                Status |-> states[c].Status,
                Position |-> states[c].Position,
                Heading |-> states[c].Heading,
                Speed |-> states[c].Speed,
                Lap |-> states[c].Lap]],
   Penalties |-> [c \in {} |-> Null],
   GameTick |-> tick]

createRaceUpdate(states, pens, status, tick) ==
  [RaceStatus |-> status,
   Cars |-> [c \in DOMAIN states |->
               [CarId |-> states[c].CarId,
                Status |-> states[c].Status,
                Position |-> states[c].Position,
                Heading |-> states[c].Heading,
                Speed |-> states[c].Speed,
                Lap |-> states[c].Lap]],
   Penalties |-> pens,
   GameTick |-> tick]

(***************************************************************************)
(* calculateIntervals and the RaceUpdate with its interval lists.  The     *)
(* positions slice is filled by ranging over the map s.carStates, whose    *)
(* iteration order Go leaves open, and sorted by sort.Slice, which for a   *)
(* slice of at most 12 elements is an insertion sort.  An interval is kept *)
(* in units of 1/TrackLen lap, like the progress.                          *)
(***************************************************************************)
\* the orders in which `for carId, state := range s.carStates` can run
MapOrders ==
  {order \in [1..numCars -> CarIds] :
     \A i, j \in 1..numCars : i # j => order[i] # order[j]}

carPosition(states, carId) ==
  [carId |-> carId,
   lap |-> states[carId].Lap,
   progress |-> calculateTrackProgress(states[carId].Position)]

\* the carPosition that the loop body builds for each car, from the i-th
\* roster car on
RECURSIVE carPositionsFrom(_, _)
carPositionsFrom(states, i) ==
  IF i > numCars THEN <<>>
  ELSE (carInfos[i].carId :> carPosition(states, carInfos[i].carId))
         @@ carPositionsFrom(states, i + 1)

carPositions(states) == carPositionsFrom(states, 1)

\* positions = append(positions, ...) for the cars in iteration order
RECURSIVE AppendPositions(_, _, _, _)
AppendPositions(positionOf, order, i, positions) ==
  IF i > numCars THEN positions
  ELSE AppendPositions(positionOf, order, i + 1,
                       Append(positions, positionOf[order[i]]))

\* the less function handed to sort.Slice
LessProgressOnly(a, b) == a.progress > b.progress
Less(a, b) ==
  IF a.lap # b.lap THEN a.lap > b.lap ELSE a.progress > b.progress

Swap(seq, i, j) == [seq EXCEPT ![i] = seq[j], ![j] = seq[i]]

\* for j := i; j > a && less(j, j-1); j-- { swap(j, j-1) }
RECURSIVE SinkDown(_, _)
SinkDown(seq, j) ==
  IF j > 1 /\ Less(seq[j], seq[j - 1])
  THEN SinkDown(Swap(seq, j, j - 1), j - 1)
  ELSE seq

\* for i := a + 1; i < b; i++ { ... }
RECURSIVE InsertionSort(_, _)
InsertionSort(seq, i) ==
  IF i > Len(seq) THEN seq
  ELSE CHOOSE r \in {InsertionSort(next, i + 1) :
                       next \in {SinkDown(seq, i)}} : TRUE

\* The float32 values of calculateIntervals.  All of them are below 4 and
\* those that are not 0 are at least 1/16, so everyone is a multiple of
\* 2^-27 and is stood for by that multiple.
F32Unit == 2^27

\* the distance of neighbouring float32 values at the magnitude v >= 0: a
\* float32 has 24 significant bits
F32Ulp(v) ==
  IF v < 16777216 THEN 1
  ELSE IF v < 33554432 THEN 2
  ELSE IF v < 67108864 THEN 4
  ELSE IF v < 134217728 THEN 8
  ELSE IF v < 268435456 THEN 16
  ELSE IF v < 536870912 THEN 32
  ELSE 64

\* the float32 nearest to num / den >= 0, ties to the even one
F32Nearest(num, den) ==
  LET u == F32Ulp(num \div den)
      m == num \div (den * u)
      r == num % (den * u)
  IN IF 2 * r > den * u \/ (2 * r = den * u /\ m % 2 = 1)
     THEN (m + 1) * u ELSE m * u

\* the float32 result of an addition or subtraction whose exact result is v
F32(v) == IF v < 0 THEN 0 - F32Nearest(0 - v, 1) ELSE F32Nearest(v, 1)

\* float32(closestIndex) / float32(len(centerline)) for the progress idx
F32Quotients == [idx \in 0..(TrackLen - 1) |->
                   F32Nearest(idx * F32Unit, TrackLen)]
F32Progress(idx) == F32Quotients[idx]

\* lapDiff + progressDiff of the car pos behind the car ahead
IntervalBetweenLapsOnly(ahead, pos) == (ahead.lap - pos.lap) * F32Unit
IntervalBetweenProgressOnly(ahead, pos) ==
  F32(F32Progress(ahead.progress) - F32Progress(pos.progress))
IntervalBetween(ahead, pos) ==
  F32((ahead.lap - pos.lap) * F32Unit
        + F32(F32Progress(ahead.progress) - F32Progress(pos.progress)))

\* the two lists for the sorted slice
IntervalLists(positions) ==
  [toLeader |->
     [i \in 1..Len(positions) |->
        [CarId |-> positions[i].carId,
         Position |-> i,
         Laps |-> positions[i].lap,
         Interval |-> IntervalBetween(positions[1], positions[i])]],
   forPosition |->
     [i \in 1..Len(positions) |->
        [CarId |-> positions[i].carId,
         Position |-> i,
         Laps |-> positions[i].lap,
         Interval |-> IF i > 1
                      THEN IntervalBetween(positions[i - 1], positions[i])
                      ELSE 0]]]

\* positionOf is carPositions(s.carStates), order the iteration order
calculateIntervals(positionOf, order) ==
  CHOOSE r \in
    { IntervalLists(positions) :
        positions \in
          {InsertionSort(AppendPositions(positionOf, order, 1, <<>>), 2)} }
    : TRUE

\* createRaceUpdate with the lists that calculateIntervals returned
createRaceUpdateFull(states, pens, status, tick, lists) ==
  [RaceStatus |-> status,
   Cars |-> createRaceUpdate(states, pens, status, tick).Cars,
   Penalties |-> pens,
   ToLeader |-> lists.toLeader,
   ForPosition |-> lists.forPosition,
   GameTick |-> tick]

\* the updates that createRaceUpdate can build, one for every outcome of
\* the map iteration in calculateIntervals
WithIntervals(states, pens, status, tick) ==
  { createRaceUpdateFull(states, pens, status, tick, lists) :
      lists \in UNION { {calculateIntervals(positionOf, order) :
                           order \in MapOrders} :
                        positionOf \in {carPositions(states)} } }

\* the update without its interval lists
WithoutIntervals(states, pens, status, tick) ==
  {createRaceUpdate(states, pens, status, tick)}

(***************************************************************************)
(* physicsLoop.  One iteration is TickBegin (s.mu.Lock, s.gameTick++ and   *)
(* the race clock) followed by TickBody (the loop over the cars, the race  *)
(* status, the broadcast and s.mu.Unlock).                                 *)
(***************************************************************************)
TickBeginClearing ==
  /\ tpc = "wait" /\ ~panicked
  /\ mu = "free"
  /\ mu' = "tick"
  /\ \E d \in DtValues : dt' = d /\ elapsed' = elapsed + d
  /\ gameTick' = gameTick + 1
  /\ IF raceType = "RACEBYTIME"
     THEN LET left == raceTime - (elapsed' \div Milli)
          IN /\ raceTimeLeft' = IF left <= 0 THEN 0 ELSE left
             /\ raceStatus' = IF left <= 0
                              THEN [raceStatus EXCEPT !.Status = "finished"]
                              ELSE raceStatus
     ELSE UNCHANGED <<raceTimeLeft, raceStatus>>
  /\ tpc' = "body"
  /\ atTickStart' = playerInput
  /\ playerInput' = [c \in DOMAIN playerInput |-> NoInput]
  /\ contending' = {h \in Callers : cpc[h] = "lock"}
  /\ UNCHANGED <<loading,
                 carStates, authTokens, penalties, chanVars,
                 callVars, streamVars, lastAccepted, lastSeen, dropped,
                 closeCount>>

TickBegin ==
  /\ tpc = "wait" /\ ~panicked
  /\ mu = "free"
  /\ mu' = "tick"
  /\ \E d \in DtValues : dt' = d /\ elapsed' = elapsed + d
  /\ gameTick' = gameTick + 1
  /\ IF raceType = "RACEBYTIME"
     THEN LET left == raceTime - (elapsed' \div Milli)
          IN /\ raceTimeLeft' = IF left <= 0 THEN 0 ELSE left
             /\ raceStatus' = IF left <= 0
                              THEN [raceStatus EXCEPT !.Status = "finished"]
                              ELSE raceStatus
     ELSE UNCHANGED <<raceTimeLeft, raceStatus>>
  /\ tpc' = "body"
  /\ atTickStart' = playerInput
  /\ contending' = {h \in Callers : cpc[h] = "lock"}
  /\ UNCHANGED <<loading,
                 carStates, playerInput, authTokens, penalties, chanVars,
                 callVars, streamVars, lastAccepted, lastSeen, dropped,
                 closeCount>>

PenaltyStepStrict(state, pens, d) ==
  IF state.CarId \in DOMAIN pens
  THEN LET remaining == pens[state.CarId].RemainingPenalty - d
       IN IF remaining < 0
          THEN [state |-> [state EXCEPT !.Status = "RACING"],
                pens |-> [c \in DOMAIN pens \ {state.CarId} |-> pens[c]]]
          ELSE [state |-> [state EXCEPT !.Status = "SERVINGPENALTY"],
                pens |-> [pens EXCEPT
                            ![state.CarId].RemainingPenalty = remaining]]
  ELSE [state |-> state, pens |-> pens]

\* the penalty timer of one car: the car's status and the penalty map after it
PenaltyStep(state, pens, d) ==
  IF state.CarId \in DOMAIN pens
  THEN LET remaining == pens[state.CarId].RemainingPenalty - d
       IN IF remaining <= 0
          THEN [state |-> [state EXCEPT !.Status = "RACING"],
                pens |-> [c \in DOMAIN pens \ {state.CarId} |-> pens[c]]]
          ELSE [state |-> [state EXCEPT !.Status = "SERVINGPENALTY"],
                pens |-> [pens EXCEPT
                            ![state.CarId].RemainingPenalty = remaining]]
  ELSE [state |-> state, pens |-> pens]

\* the finish checks that follow the integration of a racing car
FinishCheckTimeOnly(state) ==
  IF raceType = "RACEBYTIME" /\ raceTimeLeft <= 0
  THEN [state EXCEPT !.Status = "FINISHED"] ELSE state

FinishCheckPastTarget(state) ==
  LET byLaps == IF raceType = "RACEBYLAPS" /\ state.Lap > totalLaps
                THEN [state EXCEPT !.Status = "FINISHED"] ELSE state
  IN IF raceType = "RACEBYTIME" /\ raceTimeLeft <= 0
     THEN [byLaps EXCEPT !.Status = "FINISHED"] ELSE byLaps

FinishCheck(state) ==
  LET byLaps == IF raceType = "RACEBYLAPS" /\ state.Lap >= totalLaps
                THEN [state EXCEPT !.Status = "FINISHED"] ELSE state
  IN IF raceType = "RACEBYTIME" /\ raceTimeLeft <= 0
     THEN [byLaps EXCEPT !.Status = "FINISHED"] ELSE byLaps

\* physicsLoop, lines 56-71: what follows updateCarPhysics for a racing car
\* (leader and finish checks); moved is the car's state after the integration
AfterPhysics(acc, pens, moved) ==
  LET progress == calculateTrackProgress(moved.Position)
      leads == moved.Lap > acc.maxLap
               \/ (moved.Lap = acc.maxLap /\ progress > acc.maxProgress)
  IN [states |-> [acc.states EXCEPT ![moved.CarId] = FinishCheck(moved)],
      pens |-> pens,
      maxLap |-> IF leads THEN moved.Lap ELSE acc.maxLap,
      maxProgress |-> IF leads THEN progress ELSE acc.maxProgress]

AfterPenaltyAnyStatus(acc, pen) ==
  CHOOSE r \in
    { AfterPhysics(acc, pen.pens, moved) :
        moved \in {updateCarPhysics(pen.state,
                                    playerInput[pen.state.CarId], dt)} }
    : TRUE

\* physicsLoop, lines 52-72: pen is the outcome of the car's penalty timer
AfterPenalty(acc, pen) ==
  IF pen.state.Status = "RACING"
  THEN CHOOSE r \in
         { AfterPhysics(acc, pen.pens, moved) :
             moved \in {updateCarPhysics(pen.state,
                                         playerInput[pen.state.CarId], dt)} }
         : TRUE
  ELSE [acc EXCEPT !.states[pen.state.CarId] = pen.state, !.pens = pen.pens]

\* the body of `for _, car := range s.carInfos` for the i-th roster car;
\* acc carries the car states, the penalties and the leader's lap and progress
CarStep(acc, i) ==
  CHOOSE r \in
    { AfterPenalty(acc, pen) :
        pen \in {PenaltyStep(acc.states[carInfos[i].carId], acc.pens, dt)} }
    : TRUE

\* `for _, car := range s.carInfos` from the i-th car on (each step's result
\* is bound before the next step uses it)
RECURSIVE CarLoop(_, _)
CarLoop(acc, i) ==
  IF i > numCars THEN acc
  ELSE CHOOSE r \in {CarLoop(next, i + 1) : next \in {CarStep(acc, i)}} : TRUE

SendReadyWhenRoom(queue) == Len(queue) < chanCap

\* select { case clientChan <- update: default: } on one channel: with the
\* default case the select never waits for room in the channel
SendReady(queue) == TRUE

TrySendDropOldest(queue, update) ==
  IF Len(queue) < chanCap THEN Append(queue, update)
  ELSE Append(Tail(queue), update)

TrySendFront(queue, update) ==
  IF Len(queue) < chanCap THEN <<update>> \o queue ELSE queue

TrySend(queue, update) ==
  IF Len(queue) < chanCap THEN Append(queue, update) ELSE queue

\* withLists: the update is sent with its interval lists
TickBodySending(withLists) ==
  /\ tpc = "body"
  /\ \A s \in clients : SendReady(mailbox[s])
  /\ \E after \in {CarLoop([states |-> carStates, pens |-> penalties,
                             maxLap |-> 0, maxProgress |-> 0], 1)} :
     LET status == IF raceType = "RACEBYLAPS" /\ after.maxLap >= totalLaps
                   THEN [raceStatus EXCEPT !.GameTick = gameTick,
                                           !.Status = "finished"]
                   ELSE [raceStatus EXCEPT !.GameTick = gameTick]
     IN \E update \in IF withLists
                       THEN WithIntervals(after.states, after.pens, status,
                                          gameTick)
                       ELSE WithoutIntervals(after.states, after.pens, status,
                                             gameTick) :
        /\ carStates' = after.states
        /\ penalties' = after.pens
        /\ raceStatus' = status
        /\ IF \E s \in clients : closed[s]
           THEN /\ panicked' = TRUE
                /\ UNCHANGED <<mu, mailbox, dropped, tpc>>
           ELSE /\ mailbox' = [s \in Streams |->
                                 IF s \in clients
                                 THEN TrySend(mailbox[s], update)
                                 ELSE mailbox[s]]
                /\ dropped' = [s \in Streams |->
                                 IF s \in clients /\ mailbox'[s] = mailbox[s]
                                 THEN dropped[s] \cup {gameTick}
                                 ELSE dropped[s]]
                /\ mu' = "free"
                /\ tpc' = "wait"
                /\ UNCHANGED panicked
  /\ UNCHANGED <<loading,
                 gameTick, playerInput, authTokens, raceTimeLeft, clients,
                 closed, dt, elapsed, callVars, streamVars, atTickStart,
                 contending, lastAccepted, lastSeen, closeCount>>

TickBody == TickBodySending(FALSE)

(***************************************************************************)
(* SendPlayerInput                                                         *)
(***************************************************************************)
validateTokenIdOnly(carId, token) == carId \in DOMAIN authTokens

validateTokenAnyId(carId, token) ==
  carId \in DOMAIN authTokens => token = authTokens[carId]

validateToken(carId, token) ==
  carId \in DOMAIN authTokens /\ token = authTokens[carId]

\* the PlayerInput that the handler builds from the request
StagedFrom(r) ==
  [steering |-> r.input.steering,
   throttle |-> r.input.throttle,
   brake |-> r.input.brake,
   timestamp |-> r.input.timestamp]

\* entry of the call, with a request out of reqs as the max-th call of the
\* run at most, and validateToken, which reads under the read lock
SendEnter(h, reqs, max) ==
  /\ cpc[h] = "idle" /\ ~panicked
  /\ calls < max
  /\ mu = "free"
  /\ \E r \in reqs :
       /\ creq' = [creq EXCEPT ![h] = r]
       /\ cpc' = [cpc EXCEPT ![h] = IF validateToken(r.carId, r.token)
                                    THEN "lock" ELSE "ackRejected"]
  /\ calls' = calls + 1
  /\ UNCHANGED <<mu, serverVars, chanVars, tickVars, resp, streamVars,
                 histVars>>

SendValidate(h) == SendEnter(h, Requests, MaxCalls)

SendLockNoWait(h) ==
  /\ cpc[h] = "lock"
  /\ mu' = h
  /\ cpc' = [cpc EXCEPT ![h] = "write"]
  /\ UNCHANGED <<serverVars, chanVars, tickVars, creq, resp, calls,
                 streamVars, histVars>>

SendLock(h) ==
  /\ cpc[h] = "lock"
  /\ mu = "free"
  /\ mu' = h
  /\ cpc' = [cpc EXCEPT ![h] = "write"]
  /\ UNCHANGED <<serverVars, chanVars, tickVars, creq, resp, calls,
                 streamVars, histVars>>

OverwriteIfNewer(old, new) ==
  IF new.timestamp > old.timestamp THEN new ELSE old

\* s.playerInput[carId] = &PlayerInput{...}: the map entry is replaced
Overwrite(old, new) == new

MapAssignShared(m, k, v) == [c \in DOMAIN m \cup {k} |-> v]

\* m[k] = v on a Go map: the entry is made if the key is not there
MapAssign(m, k, v) ==
  [c \in DOMAIN m \cup {k} |-> IF c = k THEN v ELSE m[c]]

SendWrite(h) ==
  /\ cpc[h] = "write"
  /\ playerInput' =
       MapAssign(playerInput, creq[h].carId,
                 Overwrite(IF creq[h].carId \in DOMAIN playerInput
                           THEN playerInput[creq[h].carId] ELSE NoInput,
                           StagedFrom(creq[h])))
  /\ lastAccepted' = [lastAccepted EXCEPT ![creq[h].carId] = creq[h].input]
  /\ mu' = "free"
  /\ cpc' = [cpc EXCEPT ![h] = "ackAccepted"]
  /\ UNCHANGED <<loading,
                 gameTick, carStates, authTokens, penalties, raceStatus,
                 raceTimeLeft, chanVars, tickVars, creq, resp, calls,
                 streamVars, atTickStart, contending, lastSeen, dropped,
                 closeCount>>

\* the InputAck is built, and s.gameTick read, after the locks are released
SendAck(h) ==
  /\ cpc[h] \in {"ackRejected", "ackAccepted"}
  /\ resp' = [resp EXCEPT ![h] =
                IF cpc[h] = "ackRejected"
                THEN [Accepted |-> FALSE, Reason |-> "invalid token",
                      GameLoop |-> gameTick]
                ELSE [Accepted |-> TRUE, Reason |-> "",
                      GameLoop |-> gameTick]]
  /\ cpc' = [cpc EXCEPT ![h] = "idle"]
  /\ creq' = [creq EXCEPT ![h] = Null]
  /\ UNCHANGED <<mu, serverVars, chanVars, tickVars, calls, streamVars,
                 histVars>>

(***************************************************************************)
(* CheckIn.  The call of a client is either a SendPlayerInput or a         *)
(* CheckIn; creq holds the locals of a running CheckIn, and the answer in  *)
(* resp carries, in the field For, the car id that was asked for (it is    *)
(* not part of the message).                                               *)
(***************************************************************************)
observersallowed == TRUE

\* the car ids that the model's clients check in with: a roster car, the
\* spectator id, and an id that is neither
CheckInIds == {"A", observersID, "Z"}

\* lines 108-125: the locals after the lookup in s.authTokens
CheckInLocalsNoSpectator(carId) ==
  [carId |-> carId,
   exists |-> carId \in DOMAIN authTokens,
   token |-> IF carId \in DOMAIN authTokens THEN authTokens[carId] ELSE "",
   isSpectator |-> FALSE]

CheckInLocals(carId) ==
  LET found == carId \in DOMAIN authTokens
      spectator == ~found /\ observersallowed /\ carId = observersID
  IN [carId |-> carId,
      exists |-> found \/ spectator,
      token |-> IF spectator THEN observerstoken
                ELSE IF found THEN authTokens[carId] ELSE "",
      isSpectator |-> spectator]

\* lines 127-132; the fields that are not set have their zero values
CheckInRejected(locals) ==
  [For |-> locals.carId,
   Accepted |-> FALSE,
   AuthToken |-> "",
   Message |-> "Car ID not found",
   IsSpectator |-> FALSE,
   Track |-> Null,
   Race |-> ""]

\* lines 142-154
CheckInAcceptedStamped(locals) ==
  [For |-> locals.carId,
   Accepted |-> TRUE,
   AuthToken |-> IF gameTick > 0 THEN "" ELSE locals.token,
   Message |-> IF locals.isSpectator THEN "Welcome spectator!"
               ELSE "Welcome to the race!",
   IsSpectator |-> locals.isSpectator,
   Track |-> track,
   Race |-> raceType]

CheckInAccepted(locals) ==
  [For |-> locals.carId,
   Accepted |-> TRUE,
   AuthToken |-> locals.token,
   Message |-> IF locals.isSpectator THEN "Welcome spectator!"
               ELSE "Welcome to the race!",
   IsSpectator |-> locals.isSpectator,
   Track |-> track,
   Race |-> raceType]

\* entry of the call and the lookup of the car's token under the read lock
CheckInRead(h) ==
  /\ cpc[h] = "idle" /\ ~panicked
  /\ mu = "free"
  /\ \E carId \in CheckInIds :
       /\ creq' = [creq EXCEPT ![h] = CheckInLocals(carId)]
       /\ cpc' = [cpc EXCEPT ![h] = IF CheckInLocals(carId).exists
                                    THEN "checkInTrack"
                                    ELSE "checkInReject"]
  /\ UNCHANGED <<mu, serverVars, chanVars, tickVars, resp, calls,
                 streamVars, histVars>>

\* if !exists { return ... }
CheckInReject(h) ==
  /\ cpc[h] = "checkInReject"
  /\ resp' = [resp EXCEPT ![h] = CheckInRejected(creq[h])]
  /\ cpc' = [cpc EXCEPT ![h] = "idle"]
  /\ creq' = [creq EXCEPT ![h] = Null]
  /\ UNCHANGED <<mu, serverVars, chanVars, tickVars, calls, streamVars,
                 histVars>>

\* s.track and s.raceType are read under the read lock, then the answer
CheckInTrack(h) ==
  /\ cpc[h] = "checkInTrack"
  /\ mu = "free"
  /\ resp' = [resp EXCEPT ![h] = CheckInAccepted(creq[h])]
  /\ cpc' = [cpc EXCEPT ![h] = "idle"]
  /\ creq' = [creq EXCEPT ![h] = Null]
  /\ UNCHANGED <<mu, serverVars, chanVars, tickVars, calls, streamVars,
                 histVars>>

(***************************************************************************)
(* GetTrack: s.mu.RLock(); defer s.mu.RUnlock(); return s.track.  Nothing  *)
(* between the two can wait, so the read section is one step, which no     *)
(* holder of the write lock lets pass.                                     *)
(***************************************************************************)
GetTrack(h) ==
  /\ cpc[h] = "idle" /\ ~panicked
  /\ mu = "free"
  /\ resp' = [resp EXCEPT ![h] = [Track |-> track]]
  /\ UNCHANGED <<mu, serverVars, chanVars, tickVars, cpc, creq, calls,
                 streamVars, histVars>>

(***************************************************************************)
(* StreamRaceUpdates                                                       *)
(***************************************************************************)
StreamLock(s) ==
  /\ spc[s] = "idle" /\ ~panicked
  /\ mu = "free"
  /\ mu' = s
  /\ spc' = [spc EXCEPT ![s] = "register"]
  /\ UNCHANGED <<serverVars, chanVars, tickVars, callVars, holding,
                 histVars>>

RegisterClientKeepLock(s, next) ==
  /\ spc[s] = "register"
  /\ clients' = clients \cup {s}
  /\ lastSeen' = [lastSeen EXCEPT ![s] = gameTick]
  /\ spc' = [spc EXCEPT ![s] = next]
  /\ UNCHANGED <<mu, serverVars, mailbox, closed, panicked, tickVars,
                 callVars, holding, atTickStart, contending, lastAccepted,
                 dropped, closeCount>>

\* s.clients[clientChan] = struct{}{}; s.mu.Unlock()
RegisterClient(s, next) ==
  /\ spc[s] = "register"
  /\ clients' = clients \cup {s}
  /\ lastSeen' = [lastSeen EXCEPT ![s] = gameTick]
  /\ mu' = "free"
  /\ spc' = [spc EXCEPT ![s] = next]
  /\ UNCHANGED <<serverVars, mailbox, closed, panicked, tickVars, callVars,
                 holding, atTickStart, contending, lastAccepted, dropped,
                 closeCount>>

StreamRegister(s) == RegisterClient(s, "receive")

\* for update := range clientChan
StreamReceive(s) ==
  /\ spc[s] = "receive"
  /\ \/ /\ mailbox[s] # <<>>
        /\ holding' = [holding EXCEPT ![s] = Head(mailbox[s])]
        /\ mailbox' = [mailbox EXCEPT ![s] = Tail(mailbox[s])]
        /\ lastSeen' = [lastSeen EXCEPT ![s] = Head(mailbox[s]).GameTick]
        /\ spc' = [spc EXCEPT ![s] = "send"]
     \/ /\ mailbox[s] = <<>> /\ closed[s]
        /\ spc' = [spc EXCEPT ![s] = "cleanup"]
        /\ UNCHANGED <<holding, mailbox, lastSeen>>
  /\ UNCHANGED <<mu, serverVars, clients, closed, panicked, tickVars,
                 callVars, atTickStart, contending, lastAccepted, dropped,
                 closeCount>>

\* stream.Send(update): the transport takes the update or reports an error
StreamSend(s) ==
  /\ spc[s] = "send"
  /\ \E ok \in BOOLEAN :
       spc' = [spc EXCEPT ![s] = IF ok THEN "receive" ELSE "cleanup"]
  /\ holding' = [holding EXCEPT ![s] = Null]
  /\ UNCHANGED <<mu, serverVars, chanVars, tickVars, callVars, histVars>>

\* the deferred function: s.mu.Lock()
StreamCleanupLock(s) ==
  /\ spc[s] = "cleanup"
  /\ mu = "free"
  /\ mu' = s
  /\ spc' = [spc EXCEPT ![s] = "deregister"]
  /\ UNCHANGED <<serverVars, chanVars, tickVars, callVars, holding,
                 histVars>>

DeregisterCloseOnly(s) ==
  [clients |-> clients, closed |-> [closed EXCEPT ![s] = TRUE]]

StreamCleanupKeepLock(s) ==
  /\ spc[s] = "deregister"
  /\ clients' = clients \ {s}
  /\ closed' = [closed EXCEPT ![s] = TRUE]
  /\ panicked' = (panicked \/ closed[s])
  /\ closeCount' = [closeCount EXCEPT ![s] = @ + 1]
  /\ spc' = [spc EXCEPT ![s] = "done"]
  /\ UNCHANGED <<mu, serverVars, mailbox, tickVars, callVars, holding,
                 atTickStart, contending, lastAccepted, lastSeen, dropped>>

\* delete(s.clients, clientChan); close(clientChan)
Deregister(s) ==
  [clients |-> clients \ {s}, closed |-> [closed EXCEPT ![s] = TRUE]]

StreamCleanup(s) ==
  /\ spc[s] = "deregister"
  /\ clients' = Deregister(s).clients
  /\ closed' = Deregister(s).closed
  /\ panicked' = (panicked \/ closed[s])
  /\ closeCount' = [closeCount EXCEPT ![s] = @ + 1]
  /\ mu' = "free"
  /\ spc' = [spc EXCEPT ![s] = "done"]
  /\ UNCHANGED <<serverVars, mailbox, tickVars, callVars, holding,
                 atTickStart, contending, lastAccepted, lastSeen, dropped>>

(***************************************************************************)
(* The server with clients that submit input                               *)
(***************************************************************************)
Next ==
  \/ (gameTick < MaxTick /\ TickBegin)
  \/ TickBody
  \/ \E h \in Callers : SendValidate(h)
  \/ \E h \in Callers : SendLock(h)
  \/ \E h \in Callers : SendWrite(h)
  \/ \E h \in Callers : SendAck(h)

Spec == Init /\ [][Next]_vars

(***************************************************************************)
(* The server with subscribers                                             *)
(***************************************************************************)
NextStream ==
  \/ (gameTick < MaxStreamTick /\ TickBegin)
  \/ TickBody
  \/ \E s \in Streams : StreamLock(s)
  \/ \E s \in Streams : StreamRegister(s)
  \/ \E s \in Streams : StreamReceive(s)
  \/ \E s \in Streams : StreamSend(s)
  \/ \E s \in Streams : StreamCleanupLock(s)
  \/ \E s \in Streams : StreamCleanup(s)

SpecStream == Init /\ [][NextStream]_vars

(***************************************************************************)
(* The earlier server of src/server/main.go, lines 1-370 (boost input,     *)
(* rectangular track without centerline), with subscribers.  Its handler   *)
(* sends a check-in message before it streams; its RaceUpdate carries no   *)
(* tick number.  No client submits input in this specification, so every   *)
(* car keeps the zero PlayerInput that NewCarServer stages.                *)
(***************************************************************************)
trackWidth == 1100
trackHeight == 500
\* boostMultiplier = 1.5, in tenths
boostMultiplier == 15

BoostNoInput ==
  [steering |-> 0, throttle |-> 0, brake |-> 0, boost |-> FALSE,
   timestamp |-> 0, sequence |-> 0]

BoostNewCarState(i) ==
  [CarId |-> carInfos[i].carId,
   X |-> 100 * Milli,
   Y |-> (50 + (i - 1) * 80) * Milli,
   Heading |-> 0,
   Speed |-> 0,
   Lap |-> 0,
   CurrentSteering |-> 0,
   CurrentThrottle |-> 0]

InitBoost ==
  /\ mu = "free"
  /\ gameTick = 0
  /\ carStates = [c \in CarIds |-> BoostNewCarState(IndexOf(c))]
  /\ playerInput = [c \in CarIds |-> BoostNoInput]
  /\ authTokens = [c \in CarIds |-> TokenOf(c)]
  /\ loading = NotLoading
  /\ penalties = [c \in {} |-> Null]
  /\ raceStatus = [Status |-> "racing", TotalLaps |-> totalLaps,
                   RaceTime |-> 0, LeaderCarId |-> "A"]
  /\ raceTimeLeft = 0
  /\ clients = {}
  /\ mailbox = [s \in Streams |-> <<>>]
  /\ closed = [s \in Streams |-> FALSE]
  /\ panicked = FALSE
  /\ tpc = "wait" /\ dt = 0 /\ elapsed = 0
  /\ cpc = [h \in Callers |-> "idle"]
  /\ creq = [h \in Callers |-> Null]
  /\ resp = [h \in Callers |-> Null]
  /\ calls = 0
  /\ spc = [s \in Streams |-> "idle"]
  /\ holding = [s \in Streams |-> Null]
  /\ contending = {}
  /\ atTickStart = [c \in CarIds |-> BoostNoInput]
  /\ lastAccepted = [c \in CarIds |-> BoostNoInput]
  /\ lastSeen = [s \in Streams |-> 0]
  /\ dropped = [s \in Streams |-> {}]
  /\ closeCount = [s \in Streams |-> 0]

BoostSpeedStep(speed, input, d) ==
  IF input.throttle > 0
  THEN LET acc == IF input.boost
                  THEN Quot(acceleration * boostMultiplier, 10)
                  ELSE acceleration
       IN speed + acc * input.throttle * d
  ELSE IF input.brake > 0 THEN speed - brakeForce * input.brake * d
  ELSE speed - friction * d

BoostClampSpeed(v, input) ==
  LET lo == IF v < 0 THEN 0 ELSE v
      maxS == IF input.boost
              THEN Quot(maxSpeed * boostMultiplier, 10) * Milli
              ELSE maxSpeed * Milli
  IN IF lo > maxS THEN maxS ELSE lo

BoostUpdateCarPhysics(state, input, d) ==
  LET speed == BoostClampSpeed(BoostSpeedStep(state.Speed, input, d), input)
      heading == Steer(state.Heading, speed, input, d)
      dx == IF IsNaN(heading) THEN NaN
            ELSE Quot(Quot(Cos(heading) * speed, Milli) * d, Milli)
      dy == IF IsNaN(heading) THEN NaN
            ELSE Quot(Quot(Sin(heading) * speed, Milli) * d, Milli)
      x1 == AddF(state.X, dx)
      y1 == AddF(state.Y, dy)
      wrapped == ~IsNaN(x1) /\ x1 > trackWidth * Milli
      x2 == IF wrapped THEN 0 ELSE x1
      x3 == IF ~IsNaN(x2) /\ x2 < 0 THEN trackWidth * Milli ELSE x2
      y2 == IF ~IsNaN(y1) /\ y1 < 0 THEN 0 ELSE y1
      y3 == IF ~IsNaN(y2) /\ y2 > trackHeight * Milli
            THEN trackHeight * Milli ELSE y2
  IN [state EXCEPT !.Speed = speed,
                   !.Heading = heading,
                   !.X = x3,
                   !.Y = y3,
                   !.Lap = IF wrapped THEN @ + 1 ELSE @,
                   !.CurrentSteering = input.steering,
                   !.CurrentThrottle = input.throttle]

\* the body of `for _, car := range s.carInfos` for the i-th roster car;
\* acc carries the car states and the leader with its lap and x
BoostCarStep(acc, i) ==
  CHOOSE r \in
    { IF \/ moved.Lap > acc.maxLap
         \/ (moved.Lap = acc.maxLap /\ moved.X > acc.maxX)
      THEN [states |-> [acc.states EXCEPT ![moved.CarId] = moved],
            maxLap |-> moved.Lap, maxX |-> moved.X, leader |-> moved.CarId]
      ELSE [acc EXCEPT !.states[moved.CarId] = moved] :
        moved \in {BoostUpdateCarPhysics(acc.states[carInfos[i].carId],
                                         playerInput[carInfos[i].carId],
                                         dt)} }
    : TRUE

RECURSIVE BoostCarLoop(_, _)
BoostCarLoop(acc, i) ==
  IF i > numCars THEN acc
  ELSE CHOOSE r \in {BoostCarLoop(next, i + 1) :
                       next \in {BoostCarStep(acc, i)}} : TRUE

\* createRaceUpdate of lines 322-352, without the wall-clock timestamps
BoostCreateRaceUpdate(states, status) ==
  [RaceStatus |-> status,
   Cars |-> [c \in DOMAIN states |-> states[c]]]

\* dt is measured, then s.mu.Lock() and s.gameTick++
BoostTickBegin ==
  /\ tpc = "wait" /\ ~panicked
  /\ mu = "free"
  /\ mu' = "tick"
  /\ \E d \in DtValues : dt' = d /\ elapsed' = elapsed + d
  /\ gameTick' = gameTick + 1
  /\ tpc' = "body"
  /\ UNCHANGED <<loading,
                 carStates, playerInput, authTokens, penalties, raceStatus,
                 raceTimeLeft, chanVars, callVars, streamVars, histVars>>

\* the loop over the cars, the race status, the broadcast and s.mu.Unlock()
BoostTickBody ==
  /\ tpc = "body"
  /\ \A s \in clients : SendReady(mailbox[s])
  /\ \E after \in {BoostCarLoop([states |-> carStates, maxLap |-> 0,
                                  maxX |-> 0, leader |-> ""], 1)} :
     LET status == [raceStatus EXCEPT
                      !.RaceTime = elapsed,
                      !.LeaderCarId = after.leader,
                      !.Status = IF after.maxLap >= totalLaps
                                 THEN "finished" ELSE @]
         update == BoostCreateRaceUpdate(after.states, status)
     IN /\ carStates' = after.states
        /\ raceStatus' = status
        /\ IF \E s \in clients : closed[s]
           THEN /\ panicked' = TRUE
                /\ UNCHANGED <<mu, mailbox, dropped, tpc>>
           ELSE /\ mailbox' = [s \in Streams |->
                                 IF s \in clients
                                 THEN TrySend(mailbox[s], update)
                                 ELSE mailbox[s]]
                /\ dropped' = [s \in Streams |->
                                 IF s \in clients /\ mailbox'[s] = mailbox[s]
                                 THEN dropped[s] \cup {gameTick}
                                 ELSE dropped[s]]
                /\ mu' = "free"
                /\ tpc' = "wait"
                /\ UNCHANGED panicked
  /\ UNCHANGED <<loading,
                 gameTick, playerInput, authTokens, penalties, raceTimeLeft,
                 clients, closed, dt, elapsed, callVars, streamVars,
                 atTickStart, contending, lastAccepted, lastSeen, closeCount>>

\* the channel is registered; the check-in message comes next
BoostStreamRegister(s) == RegisterClient(s, "checkin")

\* stream.Send of the check-in message: on an error the handler returns,
\* and the deferred cleanup of lines 192-197 is not installed yet
BoostStreamCheckIn(s) ==
  /\ spc[s] = "checkin"
  /\ \E ok \in BOOLEAN :
       spc' = [spc EXCEPT ![s] = IF ok THEN "receive" ELSE "done"]
  /\ UNCHANGED <<mu, serverVars, chanVars, tickVars, callVars, holding,
                 histVars>>

\* for update := range clientChan
BoostStreamReceive(s) ==
  /\ spc[s] = "receive"
  /\ \/ /\ mailbox[s] # <<>>
        /\ holding' = [holding EXCEPT ![s] = Head(mailbox[s])]
        /\ mailbox' = [mailbox EXCEPT ![s] = Tail(mailbox[s])]
        /\ spc' = [spc EXCEPT ![s] = "send"]
     \/ /\ mailbox[s] = <<>> /\ closed[s]
        /\ spc' = [spc EXCEPT ![s] = "cleanup"]
        /\ UNCHANGED <<holding, mailbox>>
  /\ UNCHANGED <<mu, serverVars, clients, closed, panicked, tickVars,
                 callVars, histVars>>

\* s.mu.Lock() of line 164, stream.Send(update) of line 200 and the deferred
\* function of lines 192-197 read as in the later handler: StreamLock,
\* StreamSend, StreamCleanupLock and StreamCleanup
NextBoost ==
  \/ (gameTick < MaxTick /\ BoostTickBegin)
  \/ BoostTickBody
  \/ \E s \in Streams : StreamLock(s)
  \/ \E s \in Streams : BoostStreamRegister(s)
  \/ \E s \in Streams : BoostStreamCheckIn(s)
  \/ \E s \in Streams : BoostStreamReceive(s)
  \/ \E s \in Streams : StreamSend(s)
  \/ \E s \in Streams : StreamCleanupLock(s)
  \/ \E s \in Streams : StreamCleanup(s)

SpecBoost == InitBoost /\ [][NextBoost]_vars

(***************************************************************************)
(* The server with one client that drives car E.  Inputs are not           *)
(* range-checked, so the client also sends values outside [0,1] and        *)
(* [-1,1], and NaN.  Car E starts 60 units off the first centerline        *)
(* sample, nearest to the last sample of the circuit.                      *)
(***************************************************************************)
DriveInputs ==
  { [steering |-> 0, throttle |-> 1, brake |-> 0, timestamp |-> 1],
    [steering |-> 2, throttle |-> 1, brake |-> 0, timestamp |-> 1],
    [steering |-> 0, throttle |-> 0, brake |-> 0, timestamp |-> 1],
    [steering |-> 0 - 5, throttle |-> 3, brake |-> 0, timestamp |-> 1],
    [steering |-> 5, throttle |-> 0 - 1, brake |-> 3, timestamp |-> 1],
    [steering |-> NaN, throttle |-> 1, brake |-> 0, timestamp |-> 1] }

DriveRequests ==
  { [carId |-> "E", token |-> TokenOf("E"), input |-> i] : i \in DriveInputs }

DriveValidate(h) == SendEnter(h, DriveRequests, MaxDriveCalls)

NextDrive ==
  \/ (gameTick < MaxDriveTick /\ TickBegin)
  \/ TickBody
  \/ DriveValidate("h1")
  \/ SendLock("h1")
  \/ SendWrite("h1")
  \/ SendAck("h1")

SpecDrive == Init /\ [][NextDrive]_vars

(***************************************************************************)
(* The earlier server (src/server/main.go, lines 1-370) with one client    *)
(* that drives car A, with and without boost.                              *)
(***************************************************************************)
BoostDriveInputs ==
  { [steering |-> 0, throttle |-> 1, brake |-> 0, boost |-> TRUE,
     timestamp |-> 1, sequence |-> 1],
    [steering |-> 1, throttle |-> 3, brake |-> 0, boost |-> TRUE,
     timestamp |-> 1, sequence |-> 1],
    [steering |-> 0, throttle |-> 3, brake |-> 0, boost |-> FALSE,
     timestamp |-> 1, sequence |-> 1],
    [steering |-> 0, throttle |-> 0 - 1, brake |-> 3, boost |-> FALSE,
     timestamp |-> 1, sequence |-> 1] }

BoostDriveRequests ==
  { [carId |-> "A", token |-> TokenOf("A"), input |-> i] :
      i \in BoostDriveInputs }

BoostSendValidate(h) == SendEnter(h, BoostDriveRequests, MaxDriveCalls)

\* s.playerInput[carId] = &PlayerInput{...}; s.mu.Unlock()
BoostSendWrite(h) ==
  /\ cpc[h] = "write"
  /\ playerInput' = [playerInput EXCEPT
                       ![creq[h].carId] =
                          [steering |-> creq[h].input.steering,
                           throttle |-> creq[h].input.throttle,
                           brake |-> creq[h].input.brake,
                           boost |-> creq[h].input.boost,
                           timestamp |-> creq[h].input.timestamp,
                           sequence |-> creq[h].input.sequence]]
  /\ lastAccepted' = [lastAccepted EXCEPT ![creq[h].carId] = creq[h].input]
  /\ mu' = "free"
  /\ cpc' = [cpc EXCEPT ![h] = "ackAccepted"]
  /\ UNCHANGED <<loading,
                 gameTick, carStates, authTokens, penalties, raceStatus,
                 raceTimeLeft, chanVars, tickVars, creq, resp, calls,
                 streamVars, atTickStart, contending, lastSeen, dropped,
                 closeCount>>

\* the InputAck is built, and s.gameTick read, after the locks are released
BoostSendAck(h) ==
  /\ cpc[h] \in {"ackRejected", "ackAccepted"}
  /\ resp' = [resp EXCEPT ![h] =
                IF cpc[h] = "ackRejected"
                THEN [Accepted |-> FALSE, Reason |-> "invalid token",
                      GameTick |-> gameTick]
                ELSE [Accepted |-> TRUE, Reason |-> "",
                      GameTick |-> gameTick]]
  /\ cpc' = [cpc EXCEPT ![h] = "idle"]
  /\ creq' = [creq EXCEPT ![h] = Null]
  /\ UNCHANGED <<mu, serverVars, chanVars, tickVars, calls, streamVars,
                 histVars>>

(***************************************************************************)
(* Either server, each with its driving client                             *)
(***************************************************************************)
\* the state is one of the earlier server: its RaceStatus names the leader
IsBoost == "LeaderCarId" \in DOMAIN raceStatus

InitEither == Init \/ InitBoost

NextEither ==
  \/ (~IsBoost /\ gameTick < MaxDriveTick /\ TickBegin)
  \/ (~IsBoost /\ TickBody)
  \/ (~IsBoost /\ DriveValidate("h1"))
  \/ (~IsBoost /\ SendLock("h1"))
  \/ (~IsBoost /\ SendWrite("h1"))
  \/ (~IsBoost /\ SendAck("h1"))
  \/ (IsBoost /\ gameTick < MaxDriveTick /\ BoostTickBegin)
  \/ (IsBoost /\ BoostTickBody)
  \/ (IsBoost /\ BoostSendValidate("h1"))
  \/ (IsBoost /\ SendLock("h1"))
  \/ (IsBoost /\ BoostSendWrite("h1"))
  \/ (IsBoost /\ BoostSendAck("h1"))

SpecEither == InitEither /\ [][NextEither]_vars

(***************************************************************************)
(* The server with a client that drives car E through the three laps of    *)
(* the race (ahead for two ticks, then turning round on every tick across  *)
(* the start line) and sets car D going.                                   *)
(***************************************************************************)
FinishRequests ==
  { [carId |-> "E", token |-> TokenOf("E"),
     input |-> [steering |-> 0, throttle |-> 1, brake |-> 0, timestamp |-> 1]],
    [carId |-> "E", token |-> TokenOf("E"),
     input |-> [steering |-> 2, throttle |-> 1, brake |-> 0, timestamp |-> 1]],
    [carId |-> "D", token |-> TokenOf("D"),
     input |-> [steering |-> 0, throttle |-> 1, brake |-> 0, timestamp |-> 1]] }

FinishValidate(h) == SendEnter(h, FinishRequests, MaxFinishCalls)

NextFinish ==
  \/ (gameTick < MaxFinishTick /\ TickBegin)
  \/ TickBody
  \/ FinishValidate("h1")
  \/ SendLock("h1")
  \/ SendWrite("h1")
  \/ SendAck("h1")

SpecFinish == Init /\ [][NextFinish]_vars

\* two clients at once: the first submits for car E, the second for car D
PairSends(h) ==
  SendEnter(h, {r \in FinishRequests : r.carId = "E" <=> h = "h1"}, MaxCalls)

NextPair ==
  \/ (gameTick < MaxTick /\ TickBegin)
  \/ TickBody
  \/ \E h \in Callers : PairSends(h)
  \/ \E h \in Callers : SendLock(h)
  \/ \E h \in Callers : SendWrite(h)
  \/ \E h \in Callers : SendAck(h)

SpecPair == Init /\ [][NextPair]_vars


\* the same client driving car E only, ahead with its first call and
\* turning with the later ones, and a subscriber
WatchRequests ==
  {r \in FinishRequests :
     r.carId = "E" /\ (r.input.steering = 0 <=> calls = 0)}

WatchValidate(h) == SendEnter(h, WatchRequests, MaxDriveCalls)

NextWatch ==
  \/ (gameTick < MaxFinishTick /\ TickBegin)
  \/ TickBody
  \/ WatchValidate("h1")
  \/ SendLock("h1")
  \/ SendWrite("h1")
  \/ SendAck("h1")
  \/ StreamLock("s1")
  \/ StreamRegister("s1")
  \/ StreamReceive("s1")
  \/ StreamSend("s1")
  \/ StreamCleanupLock("s1")
  \/ StreamCleanup("s1")

SpecWatch == Init /\ [][NextWatch]_vars

TickBodyIntervals == TickBodySending(TRUE)

(***************************************************************************)
(* The server in the middle of a race, with one subscriber.  Cars A, B and *)
(* C have driven one or two laps and stand on the centerline, cars D and E *)
(* have not left the grid; no client submits input.                        *)
(***************************************************************************)
MidRaceTick == 40

\* the lap counts and the centerline samples (0-based) of the standing cars
Standing == {[lap |-> l, idx |-> i] : l \in {1, 2}, i \in {6, 10, 11}}
StandingLast == {[lap |-> 1, idx |-> 11], [lap |-> 2, idx |-> 10]}

StandingAt(carId, at) ==
  [NewCarState(IndexOf(carId)) EXCEPT
     !.Position = [X |-> Centerline[at.idx + 1].X,
                   Y |-> Centerline[at.idx + 1].Y,
                   Z |-> 0],
     !.Lap = at.lap,
     !.lastProgress = at.idx]

OnGrid(carId) ==
  [NewCarState(IndexOf(carId)) EXCEPT
     !.lastProgress =
        calculateTrackProgress(NewCarState(IndexOf(carId)).Position)]

InitIntervals ==
  /\ mu = "free"
  /\ gameTick = MidRaceTick
  /\ \E a, b \in Standing, c \in StandingLast :
       carStates = [car \in CarIds |->
                      CASE car = "A" -> StandingAt(car, a)
                        [] car = "B" -> StandingAt(car, b)
                        [] car = "C" -> StandingAt(car, c)
                        [] OTHER -> OnGrid(car)]
  /\ playerInput = [c \in CarIds |-> NoInput]
  /\ authTokens = NewAuthTokens
  /\ loading = NotLoading
  /\ penalties = [c \in {} |-> Null]
  /\ raceStatus = [Status |-> "racing", TotalLaps |-> totalLaps,
                   GameTick |-> MidRaceTick]
  /\ raceTimeLeft = 0
  /\ clients = {}
  /\ mailbox = [s \in Streams |-> <<>>]
  /\ closed = [s \in Streams |-> FALSE]
  /\ panicked = FALSE
  /\ tpc = "wait" /\ dt = 500 /\ elapsed = MidRaceTick * 500
  /\ cpc = [h \in Callers |-> "idle"]
  /\ creq = [h \in Callers |-> Null]
  /\ resp = [h \in Callers |-> Null]
  /\ calls = 0
  /\ spc = [s \in Streams |-> "idle"]
  /\ holding = [s \in Streams |-> Null]
  /\ contending = {}
  /\ atTickStart = [c \in CarIds |-> NoInput]
  /\ lastAccepted = [c \in CarIds |-> NoInput]
  /\ lastSeen = [s \in Streams |-> 0]
  /\ dropped = [s \in Streams |-> {}]
  /\ closeCount = [s \in Streams |-> 0]

NextIntervals ==
  \/ (gameTick < MidRaceTick + MaxTick /\ TickBegin)
  \/ TickBodyIntervals
  \/ StreamLock("s1")
  \/ StreamRegister("s1")
  \/ StreamReceive("s1")
  \/ StreamSend("s1")
  \/ StreamCleanupLock("s1")
  \/ StreamCleanup("s1")

SpecIntervals == InitIntervals /\ [][NextIntervals]_vars

(***************************************************************************)
(* The server at the end of a race, with one subscriber.  Cars A and B are *)
(* in their last lap, at full speed and full throttle, heading down the    *)
(* last straight: A is one tick and B two ticks from the line, each on the *)
(* centerline or 60 units to its right.  The other cars have not left the  *)
(* grid.                                                                   *)
(***************************************************************************)
LastBend == {Pt(0, 100), Pt(60, 100)}
BeforeLastBend == {Pt(0, 230), Pt(60, 230)}
FullThrottle == [steering |-> 0, throttle |-> 1, brake |-> 0, timestamp |-> 1]

AtSpeed(carId, pos) ==
  [NewCarState(IndexOf(carId)) EXCEPT
     !.Position = pos,
     !.Heading = 270 * Milli,
     !.Speed = maxSpeed * Milli,
     !.Lap = totalLaps - 1,
     !.lastProgress = calculateTrackProgress(pos)]

InitPodium ==
  /\ mu = "free"
  /\ gameTick = MidRaceTick
  /\ \E a \in LastBend, b \in BeforeLastBend :
       carStates = [car \in CarIds |->
                      CASE car = "A" -> AtSpeed(car, a)
                        [] car = "B" -> AtSpeed(car, b)
                        [] OTHER -> OnGrid(car)]
  /\ playerInput = [c \in CarIds |-> IF c \in {"A", "B"} THEN FullThrottle
                                     ELSE NoInput]
  /\ authTokens = NewAuthTokens
  /\ loading = NotLoading
  /\ penalties = [c \in {} |-> Null]
  /\ raceStatus = [Status |-> "racing", TotalLaps |-> totalLaps,
                   GameTick |-> MidRaceTick]
  /\ raceTimeLeft = 0
  /\ clients = {}
  /\ mailbox = [s \in Streams |-> <<>>]
  /\ closed = [s \in Streams |-> FALSE]
  /\ panicked = FALSE
  /\ tpc = "wait" /\ dt = 500 /\ elapsed = MidRaceTick * 500
  /\ cpc = [h \in Callers |-> "idle"]
  /\ creq = [h \in Callers |-> Null]
  /\ resp = [h \in Callers |-> Null]
  /\ calls = 0
  /\ spc = [s \in Streams |-> "idle"]
  /\ holding = [s \in Streams |-> Null]
  /\ contending = {}
  /\ atTickStart = playerInput
  /\ lastAccepted = playerInput
  /\ lastSeen = [s \in Streams |-> 0]
  /\ dropped = [s \in Streams |-> {}]
  /\ closeCount = [s \in Streams |-> 0]


SpecPodium == InitPodium /\ [][NextIntervals]_vars

(***************************************************************************)
(* The tick loop over a car at speed.  Car E, on its grid position, has    *)
(* one of a few speeds and headings (up to maxSpeed; from 35 and 35.001    *)
(* friction leads to 10 and just above, the steering threshold), and one   *)
(* of a few inputs is staged for it: every                                 *)
(* combination of throttle and brake being positive or not, steering zero, *)
(* non-zero and NaN.  No client submits input.                             *)
(***************************************************************************)
InitPhysics ==
  /\ mu = "free"
  /\ gameTick = MidRaceTick
  /\ \E v \in {0, 10 * Milli, 35 * Milli, 35001, 250 * Milli,
                maxSpeed * Milli},
        h \in {0, 90 * Milli, 359 * Milli} :
       carStates = [c \in CarIds |->
                      IF c = "E"
                      THEN [OnGrid(c) EXCEPT !.Speed = v, !.Heading = h]
                      ELSE OnGrid(c)]
  /\ \E s \in {0, 1, 0 - 1, NaN},
        tb \in {<<1, 0>>, <<1, 1>>, <<0, 1>>, <<0, 0>>, <<0 - 1, 0>>,
                <<NaN, 1>>} :
       playerInput = [c \in CarIds |->
                        IF c = "E"
                        THEN [steering |-> s, throttle |-> tb[1],
                              brake |-> tb[2], timestamp |-> 1]
                        ELSE NoInput]
  /\ authTokens = NewAuthTokens
  /\ loading = NotLoading
  /\ penalties = [c \in {} |-> Null]
  /\ raceStatus = [Status |-> "racing", TotalLaps |-> totalLaps,
                   GameTick |-> MidRaceTick]
  /\ raceTimeLeft = 0
  /\ clients = {}
  /\ mailbox = [s \in Streams |-> <<>>]
  /\ closed = [s \in Streams |-> FALSE]
  /\ panicked = FALSE
  /\ tpc = "wait" /\ dt = 500 /\ elapsed = MidRaceTick * 500
  /\ cpc = [h \in Callers |-> "idle"]
  /\ creq = [h \in Callers |-> Null]
  /\ resp = [h \in Callers |-> Null]
  /\ calls = 0
  /\ spc = [s \in Streams |-> "idle"]
  /\ holding = [s \in Streams |-> Null]
  /\ contending = {}
  /\ atTickStart = playerInput
  /\ lastAccepted = playerInput
  /\ lastSeen = [s \in Streams |-> 0]
  /\ dropped = [s \in Streams |-> {}]
  /\ closeCount = [s \in Streams |-> 0]

NextPhysics ==
  \/ (gameTick < MidRaceTick + MaxDriveTick /\ TickBegin)
  \/ TickBody

SpecPhysics == InitPhysics /\ [][NextPhysics]_vars


(***************************************************************************)
(* The server with two clients that check in, one of which also submits    *)
(* input for car A                                                         *)
(***************************************************************************)
CheckInRequests ==
  {r \in Requests :
     r.carId = "A" /\ r.token = TokenOf("A") /\ r.input.timestamp = 2}

CheckInSends(h) == SendEnter(h, CheckInRequests, MaxCalls)

NextCheckIn ==
  \/ (gameTick < MaxTick /\ TickBegin)
  \/ TickBody
  \/ \E h \in Callers : CheckInRead(h)
  \/ \E h \in Callers : CheckInReject(h)
  \/ \E h \in Callers : CheckInTrack(h)
  \/ CheckInSends("h1")
  \/ SendLock("h1")
  \/ SendWrite("h1")
  \/ SendAck("h1")

SpecCheckIn == Init /\ [][NextCheckIn]_vars

(***************************************************************************)
(* The server with every handler: a client that submits input for car A,   *)
(* a client that calls CheckIn and GetTrack, and a subscriber              *)
(***************************************************************************)
MaxLockTick == 2  \* ticks of a run with every handler

NextLock ==
  \/ (gameTick < MaxLockTick /\ TickBegin)
  \/ TickBody
  \/ CheckInSends("h1")
  \/ SendLock("h1")
  \/ SendWrite("h1")
  \/ SendAck("h1")
  \/ CheckInRead("h2")
  \/ CheckInReject("h2")
  \/ CheckInTrack("h2")
  \/ GetTrack("h2")
  \/ StreamLock("s1")
  \/ StreamRegister("s1")
  \/ StreamReceive("s1")
  \/ StreamSend("s1")
  \/ StreamCleanupLock("s1")
  \/ StreamCleanup("s1")

SpecLock == Init /\ [][NextLock]_vars

\* a goroutine that holds the lock runs on to its s.mu.Unlock(): the loop to
\* the end of the tick's body, the SendPlayerInput handler through its
\* write, the stream handler through its registration and through its
\* deferred function; and the ticker fires, so that the loop takes the lock
\* once it stays free.  Nothing is assumed of the clients: they may stop
\* calling, and a transport may never take an update
SpecLockLive ==
  /\ SpecLock
  /\ WF_vars(gameTick < MaxLockTick /\ TickBegin)
  /\ WF_tpc(tpc = "body" /\ tpc' = "wait")
  /\ WF_vars(SendWrite("h1"))
  /\ WF_vars(StreamRegister("s1"))
  /\ WF_vars(StreamCleanup("s1"))

(***************************************************************************)
(* The server with a penalty issuer.  The repository holds no code that    *)
(* adds to s.penalties: what detects a rule violation is left to a         *)
(* collaborator outside the server.  The issuer modelled here takes the    *)
(* lock as every writer of the race state does and gives a roster car that *)
(* has no penalty one of a few durations (milliseconds).                   *)
(***************************************************************************)
MaxPenaltyTick == 7  \* ticks of a run with penalties

\* the cars that are given penalties: E, which a client drives, and A, which
\* stays on the grid
PenaltyCars == {"E", "A"}
PenaltyDurations == {300, 1000}

IssuePenalty(c, ms) ==
  /\ mu = "free" /\ ~panicked
  /\ c \notin DOMAIN penalties
  /\ penalties' = MapAssign(penalties, c,
                            [CarId |-> c, Reason |-> "violation",
                             GameTick |-> gameTick,
                             RemainingPenalty |-> ms])
  /\ UNCHANGED <<mu, gameTick, carStates, playerInput, authTokens, loading,
                 raceStatus, raceTimeLeft, chanVars, tickVars, callVars,
                 streamVars, histVars>>

\* the tick, the issuer and the subscribers
NextPublish ==
  \/ (gameTick < MaxTick /\ TickBegin)
  \/ TickBody
  \/ \E c \in PenaltyCars, ms \in PenaltyDurations : IssuePenalty(c, ms)
  \/ \E s \in Streams : StreamLock(s)
  \/ \E s \in Streams : StreamRegister(s)
  \/ \E s \in Streams : StreamReceive(s)
  \/ \E s \in Streams : StreamSend(s)
  \/ \E s \in Streams : StreamCleanupLock(s)
  \/ \E s \in Streams : StreamCleanup(s)

SpecPublish == Init /\ [][NextPublish]_vars


\* the ticks that the timer of a penalty of ms milliseconds takes at most
TicksToServe(ms) == CHOOSE n \in 1..ms : \A d \in DtValues :
                      n * d >= ms /\ (n - 1) * d < ms

\* the tick, the issuer (which issues only what the ticks of the run can
\* still serve) and the client that drives car E to the finish
NextPenalty ==
  \/ (gameTick < MaxPenaltyTick /\ TickBegin)
  \/ TickBody
  \/ \E c \in PenaltyCars, ms \in PenaltyDurations :
       gameTick + TicksToServe(ms) <= MaxPenaltyTick /\ IssuePenalty(c, ms)
  \/ WatchValidate("h1")
  \/ SendLock("h1")
  \/ SendWrite("h1")
  \/ SendAck("h1")

SpecPenalty == Init /\ [][NextPenalty]_vars

\* the ticker fires for as long as the process lives, so that the loop takes
\* the lock once it stays free (sync.RWMutex promises more: a waiting writer
\* gets the lock before any later reader or writer), and a goroutine that
\* holds the lock runs on to its s.mu.Unlock(): the loop from its s.mu.Lock()
\* to the end of the tick's body (the only step that takes tpc from "body"
\* to "wait"), a handler through its write
SpecPenaltyLive ==
  /\ SpecPenalty
  /\ WF_vars(gameTick < MaxPenaltyTick /\ TickBegin)
  /\ WF_tpc(tpc = "body" /\ tpc' = "wait")
  /\ WF_vars(SendWrite("h1"))


(***************************************************************************)
(* Properties of the input gate, checked under Spec                        *)
(***************************************************************************)
\* a request for a roster car that carries another token than that car's
Mismatch(r) ==
  /\ "carId" \in DOMAIN r
  /\ r.carId \in CarIds
  /\ r.token # authTokens[r.carId]

TickBodyStep == tpc = "body" /\ tpc' = "wait"

\* the cars that a tick starting in this state integrates
Integrated == {c \in CarIds : /\ carStates[c].Status = "RACING"
                              /\ c \notin DOMAIN penalties}

\* C1: a call for a roster car with a token other than that car's goes
\* straight to the rejection, is answered accepted=false, "invalid token",
\* and no step of it changes any staged input; a staged input changes only
\* in the write of a call that carries the car's own token.
C1_TokenGate ==
  [][ /\ \A h \in Callers :
           /\ (cpc[h] = "idle" /\ Mismatch(creq'[h]))
                => (cpc'[h] = "ackRejected" /\ playerInput' = playerInput)
           /\ (Mismatch(creq[h]) /\ cpc'[h] # cpc[h])
                => /\ cpc[h] = "ackRejected" /\ cpc'[h] = "idle"
                   /\ resp'[h].Accepted = FALSE
                   /\ resp'[h].Reason = "invalid token"
                   /\ playerInput' = playerInput
      /\ \A c \in CarIds :
           playerInput'[c] # playerInput[c]
             => \E h \in Callers : /\ cpc[h] = "write"
                                   /\ creq[h].carId = c
                                   /\ creq[h].token = authTokens[c]
    ]_vars

\* a rejected call for car c is about to be answered while c holds an input
\* that another call staged
C1_Witness ==
  \E h \in Callers :
    /\ cpc[h] = "ackRejected"
    /\ Mismatch(creq[h])
    /\ playerInput[creq[h].carId] # NoInput

\* C2: the write of an accepted call replaces the staged input by the
\* submitted one whatever the timestamps are, and a tick integrates every
\* racing car with the input of the latest write completed before it began.
C2_LastWriteWins ==
  [][ /\ \A h \in Callers :
           (cpc[h] = "write" /\ cpc'[h] = "ackAccepted")
             => playerInput'[creq[h].carId] = creq[h].input
      /\ TickBodyStep
           => \A c \in Integrated :
                carStates'[c] =
                  FinishCheck(updateCarPhysics(carStates[c],
                                               lastAccepted[c], dt))
    ]_vars

\* both calls were accepted for car A, the write of the one with the older
\* timestamp came last (two calls in all), and a tick has steered A with it
C2_Witness ==
  /\ calls = 2
  /\ \A h \in Callers : /\ cpc[h] = "idle"
                         /\ "Accepted" \in DOMAIN resp[h]
                         /\ resp[h].Accepted
  /\ playerInput["A"].timestamp = 1
  /\ tpc = "wait"
  /\ carStates["A"].Heading # 0

\* C3: the staged inputs change only while no tick is running; a tick
\* integrates every racing car with the whole input that was staged when
\* the tick began; a call that was waiting for the lock when the tick began
\* is still waiting when the tick ends.
C3_TickAtomic ==
  [][ /\ playerInput' # playerInput => (tpc = "wait" /\ tpc' = "wait")
      /\ TickBodyStep
           => /\ \A c \in Integrated :
                   carStates'[c] =
                     FinishCheck(updateCarPhysics(carStates[c],
                                                  atTickStart[c], dt))
              /\ \A h \in contending : cpc'[h] = "lock"
    ]_vars

\* a throttle input for A waited for the lock through the whole first tick,
\* which left A at rest
C3_Witness ==
  /\ tpc = "wait" /\ gameTick = 1
  /\ \E h \in contending :
       /\ cpc[h] = "lock"
       /\ creq[h].carId = "A"
       /\ creq[h].input.throttle = 1
  /\ carStates["A"].Speed = 0

\* C4: every write of the race state is made by the holder of the write
\* lock, and the tick counter that goes into an InputAck is read by a call
\* that holds the lock.
C4_LockDiscipline ==
  [][ /\ playerInput' # playerInput => mu \in Callers
      /\ (carStates' # carStates \/ penalties' # penalties
          \/ raceStatus' # raceStatus)
           => (mu = "tick" \/ mu' = "tick")
      /\ gameTick' # gameTick => mu' = "tick"
      /\ \A h \in Callers : resp'[h] # resp[h] => mu = h
    ]_vars

\* a request for an id that is not a roster car's
Outsider(r) ==
  "carId" \in DOMAIN r /\ "input" \in DOMAIN r /\ r.carId \notin CarIds

\* C23: a SendPlayerInput call for an id outside the roster, the spectator
\* id with the spectator token included, goes straight to the rejection and
\* is answered accepted=false, "invalid token", as an ordinary response: the
\* server does not die of it, no step of the call changes a staged input,
\* and the staged inputs never get an entry for another id than the roster
\* cars'.
C23_OutsiderRejected ==
  [][ /\ \A h \in Callers :
           /\ (cpc[h] = "idle" /\ Outsider(creq'[h]))
                => (cpc'[h] = "ackRejected" /\ playerInput' = playerInput)
           /\ (Outsider(creq[h]) /\ cpc'[h] # cpc[h])
                => /\ cpc[h] = "ackRejected" /\ cpc'[h] = "idle"
                   /\ resp'[h].Accepted = FALSE
                   /\ resp'[h].Reason = "invalid token"
                   /\ playerInput' = playerInput
      /\ DOMAIN playerInput' = CarIds
      /\ ~panicked'
    ]_vars

\* the first client has been turned down and the second, which presents
\* the spectator id with the spectator token, is about to be
C23_Witness ==
  /\ cpc["h1"] = "idle" /\ resp["h1"] # Null /\ ~resp["h1"].Accepted
  /\ cpc["h2"] = "ackRejected"
  /\ creq["h2"].carId = observersID
  /\ creq["h2"].token = observerstoken
  /\ ~panicked

(***************************************************************************)
(* Properties of the broadcast, checked under SpecStream                   *)
(***************************************************************************)
Ticks(queue) == {queue[i].GameTick : i \in 1..Len(queue)}

\* the number of the last tick whose update has been broadcast
Published == IF tpc = "body" THEN gameTick - 1 ELSE gameTick

\* the update that the tick body broadcasts, seen from after the step
ThisUpdate == createRaceUpdate(carStates', penalties', raceStatus', gameTick)

\* C5: a running tick that finds registered mailboxes full can still take
\* its broadcasting step; every tick ends with the lock released and the
\* counter one above what it was before the tick, and it appends its update
\* to every registered mailbox that has room.
C5_NeverBlocks ==
  /\ []((tpc = "body" /\ \E s \in clients : Len(mailbox[s]) = chanCap)
          => ENABLED TickBody)
  /\ [][ /\ gameTick' # gameTick
              => (tpc = "wait" /\ tpc' = "body" /\ gameTick' = gameTick + 1)
         /\ tpc = "body" /\ tpc' # "body"
              => /\ tpc' = "wait" /\ mu' = "free" /\ ~panicked'
                 /\ gameTick' = gameTick
                 /\ \A s \in clients :
                      Len(mailbox[s]) < chanCap
                        => mailbox'[s] = Append(mailbox[s], ThisUpdate)
       ]_vars

\* a tick has just found one registered mailbox full and has delivered its
\* update to another registered mailbox
C5_Witness ==
  /\ tpc = "wait"
  /\ \E s, t \in clients :
       /\ gameTick \in dropped[s]
       /\ Len(mailbox[s]) = chanCap
       /\ mailbox[t] # <<>>
       /\ mailbox[t][Len(mailbox[t])].GameTick = gameTick

\* C6: a tick that finds a registered mailbox holding 10 updates leaves that
\* mailbox as it is, while the mailboxes with room get the update; no
\* mailbox ever holds more than 10 updates; an update discarded for a
\* subscriber is never queued for it nor taken by its stream afterwards.
C6_DropNewest ==
  /\ [][ TickBodyStep
           => \A s \in clients :
                IF Len(mailbox[s]) = chanCap
                THEN mailbox'[s] = mailbox[s] /\ gameTick \in dropped'[s]
                ELSE mailbox'[s] # mailbox[s] /\ gameTick \notin dropped'[s]
       ]_vars
  /\ [](\A s \in Streams :
          /\ Len(mailbox[s]) <= chanCap
          /\ dropped[s] \cap Ticks(mailbox[s]) = {}
          /\ lastSeen[s] \notin dropped[s])

\* an update was discarded for a subscriber whose stream went on to take a
\* queued update while another subscriber's mailbox had room
C6_Witness ==
  \E s, t \in clients :
    /\ dropped[s] # {}
    /\ holding[s] # Null
    /\ s # t /\ dropped[t] = {}

\* C7 as stated: once an update has been discarded for a subscriber, the
\* updates its stream takes are newer than the discarded ones.
C7_NoStaleAfterStall ==
  \A s \in Streams :
    (holding[s] # Null /\ dropped[s] # {})
      => \A t \in dropped[s] : holding[s].GameTick > t

\* C7 as amended: a mailbox is first-in first-out.  Its stream always takes
\* the oldest queued update; when an update is discarded, the 10 queued
\* updates are all older than it and stay queued, so after a stall the
\* stream first takes those stale updates and only then newer ones.
C7_StaleFirst ==
  [][ \A s \in Streams :
        /\ (holding'[s] # holding[s] /\ holding'[s] # Null)
             => /\ holding'[s] = Head(mailbox[s])
                /\ \A t \in Ticks(mailbox'[s]) : t > holding'[s].GameTick
        /\ (dropped'[s] # dropped[s])
             => /\ mailbox'[s] = mailbox[s]
                /\ Len(mailbox[s]) = chanCap
                /\ \A t \in Ticks(mailbox[s]) : t < gameTick
    ]_vars

\* after a stall in which an update was discarded, the stream holds an
\* update that is older than the discarded one
C7_Witness ==
  \E s \in Streams :
    /\ holding[s] # Null
    /\ \E t \in dropped[s] : holding[s].GameTick < t

\* C8: while a subscriber is registered and nothing was discarded for it,
\* its mailbox holds exactly the updates of the ticks after the last one its
\* stream took (after its registration, if it took none) up to the last
\* broadcast, in order; for every subscriber the queued ticks are strictly
\* increasing and above the last one taken.
C8_InOrderNoGaps ==
  \A s \in Streams :
    /\ \A i \in 1..Len(mailbox[s]) :
         /\ mailbox[s][i].GameTick > lastSeen[s]
         /\ i > 1 => mailbox[s][i].GameTick > mailbox[s][i - 1].GameTick
    /\ (s \in clients /\ dropped[s] = {})
         => /\ Len(mailbox[s]) = Published - lastSeen[s]
            /\ \A i \in 1..Len(mailbox[s]) :
                 mailbox[s][i].GameTick = lastSeen[s] + i

\* a subscriber that registered after the first tick and lost nothing has
\* taken several updates and has more queued
C8_Witness ==
  \E s \in clients :
    /\ dropped[s] = {}
    /\ lastSeen[s] >= 4
    /\ Len(mailbox[s]) >= 2
    /\ mailbox[s][1].GameTick = lastSeen[s] + 1
    /\ spc[s] = "receive"

\* C9: no registered channel is closed, and the process never dies on a
\* send to a closed channel or on a second close.
C9_NoSendOnClosed ==
  /\ ~panicked
  /\ \A s \in Streams : closed[s] => s \notin clients

\* a tick was broadcast after a channel with room had been removed and
\* closed
C9_Witness ==
  /\ tpc = "wait" /\ gameTick >= 2
  /\ clients # {}
  /\ \E s \in Streams :
       /\ closed[s] /\ spc[s] = "done"
       /\ Len(mailbox[s]) < chanCap
       /\ gameTick \notin Ticks(mailbox[s])
       /\ lastSeen[s] < gameTick

(***************************************************************************)
(* Properties of the end of a stream call                                  *)
(***************************************************************************)
\* C10: when a stream call has ended, its channel is no longer registered
\* and has been closed exactly once; no channel is closed twice, and only
\* the channel of a running call is registered.
C10_RemovedAndClosedOnce ==
  \A s \in Streams :
    /\ closeCount[s] <= 1
    /\ spc[s] = "done"
         => (s \notin clients /\ closed[s] /\ closeCount[s] = 1)
    /\ s \in clients => spc[s] \notin {"idle", "done"}


(***************************************************************************)
(* Properties of the car physics                                           *)
(***************************************************************************)
\* the largest speed of the server that is running
TopSpeed ==
  IF IsBoost THEN Quot(maxSpeed * boostMultiplier, 10) * Milli
  ELSE maxSpeed * Milli

\* C11: in every state of either server, every car's speed is at least 0
\* and at most maxSpeed, resp. maxSpeed * boostMultiplier in the earlier
\* server, whatever throttle and brake values are staged.
C11_SpeedClamp ==
  \A c \in CarIds : carStates[c].Speed >= 0 /\ carStates[c].Speed <= TopSpeed

\* a tick that began with a throttle of 3 staged for car E has left E at
\* maxSpeed; this was the second input that E's client sent
C11_Witness ==
  /\ ~IsBoost /\ tpc = "wait"
  /\ playerInput["E"].throttle = 3
  /\ atTickStart["E"].throttle = 3
  /\ carStates["E"].Speed = maxSpeed * Milli
  /\ calls = 2


\* C12: a tick that integrates a car whose staged throttle and brake are
\* both 0 does not raise the car's speed; it lowers a positive speed by
\* friction * dt at least or to exactly 0, and it leaves a speed of 0 at 0.
C12_Coast ==
  [][ TickBodyStep
        => \A c \in Integrated :
             (atTickStart[c].throttle = 0 /\ atTickStart[c].brake = 0)
               => /\ carStates'[c].Speed <= carStates[c].Speed
                  /\ carStates'[c].Speed >= 0
                  /\ \/ carStates'[c].Speed = 0
                     \/ carStates'[c].Speed <= carStates[c].Speed
                                                 - friction * dt
                  /\ carStates[c].Speed = 0 => carStates'[c].Speed = 0
    ]_vars

\* car E, which its client had set in motion and then sent a zero input,
\* has come to rest, and a further tick with that input has just ended
C12_Witness ==
  /\ tpc = "wait"
  /\ lastAccepted["E"] =
       [steering |-> 0, throttle |-> 0, brake |-> 0, timestamp |-> 1]
  /\ atTickStart["E"].timestamp = 1
  /\ atTickStart["E"].throttle = 0 /\ atTickStart["E"].brake = 0
  /\ carStates["E"].Position.X > 0
  /\ carStates["E"].Speed = 0
  /\ carStates["E"].Status = "RACING"


\* C13: in every state every car's heading is at least 0 and below 360
\* degrees.
C13_HeadingRange ==
  \A c \in CarIds :
    /\ ~IsNaN(carStates[c].Heading)
    /\ carStates[c].Heading >= 0
    /\ carStates[c].Heading < 360000


\* C14: a tick raises the lap count of a car that it integrates by exactly
\* 1 if the progress stored by the car's previous integration is above 0.9,
\* the progress of its new position is below 0.1 and its new speed is
\* above 0, and leaves it as it is otherwise; no step lowers a lap count,
\* and only the tick body changes one.
C14_LapCount ==
  [][ /\ TickBodyStep
           => \A c \in Integrated :
                LET cur == calculateTrackProgress(carStates'[c].Position)
                    wraps == /\ carStates[c].lastProgress * 10 > 9 * TrackLen
                             /\ cur * 10 < TrackLen
                             /\ carStates'[c].Speed > 0
                IN carStates'[c].Lap =
                     carStates[c].Lap + (IF wraps THEN 1 ELSE 0)
      /\ \A c \in CarIds :
           /\ carStates'[c].Lap >= carStates[c].Lap
           /\ carStates'[c].Lap # carStates[c].Lap
                => (TickBodyStep /\ c \in Integrated)
    ]_vars

\* car E has just been counted its first lap: it was nearest to the last
\* centerline sample and is now nearest to one of the first two
C14_Witness ==
  /\ tpc = "wait"
  /\ carStates["E"].Lap = 1
  /\ carStates["E"].lastProgress * 10 < TrackLen
  /\ carStates["E"].Speed > 0
  /\ ~IsNaN(carStates["E"].Position.X)


\* C15: over a run of ticks in which a car's progress rises from 0 to the
\* last centerline sample (0.99 in the claim) and then wraps to one of the
\* first samples (0.05), the lap is counted exactly once, at the wrap tick:
\* a tick whose new progress is not below the stored one leaves the lap
\* count alone, and the tick that takes a moving car from the last sample
\* to one of the first two raises it by exactly 1.
C15_OneLapPerWrap ==
  [][ TickBodyStep
        => \A c \in Integrated :
             LET last == carStates[c].lastProgress
                 cur == carStates'[c].lastProgress
             IN /\ cur >= last => carStates'[c].Lap = carStates[c].Lap
                /\ (last = TrackLen - 1 /\ cur <= 1 /\ carStates'[c].Speed > 0)
                     => carStates'[c].Lap = carStates[c].Lap + 1
    ]_vars

\* car E after its second tick: the first took its stored progress from 0
\* up to the last sample, the second wrapped it and counted the first lap
C15_Witness ==
  /\ tpc = "wait"
  /\ gameTick = 2
  /\ carStates["E"].lastProgress <= 1
  /\ carStates["E"].Lap = 1
  /\ carStates["E"].Position.X > 0

\* strictly inside (0.1, 0.9) on the index representation
InsideLap(p) == p * 10 > TrackLen /\ p * 10 < 9 * TrackLen

\* C16: a car whose progress is strictly inside (0.1, 0.9) is never counted
\* a lap: a tick that starts from a stored progress inside that range, or
\* that ends with one, leaves the lap count as it is.
C16_NoLapInside ==
  [][ TickBodyStep
        => \A c \in Integrated :
             (InsideLap(carStates[c].lastProgress)
                \/ InsideLap(carStates'[c].lastProgress))
               => carStates'[c].Lap = carStates[c].Lap
    ]_vars

\* car E has been integrated with its progress inside the range on two
\* ticks in a row: x = 450 is only reached from x = 300 on the lower side
C16_Witness ==
  /\ tpc = "wait"
  /\ carStates["E"].Position.X = 450 * Milli
  /\ InsideLap(carStates["E"].lastProgress)
  /\ carStates["E"].Status = "RACING"


(***************************************************************************)
(* Properties of the interval lists, checked under SpecIntervals           *)
(***************************************************************************)
\* the updates that are in a client channel or in the hands of a stream
InFlight ==
  UNION {{mailbox[s][i] : i \in 1..Len(mailbox[s])} : s \in Streams}
    \cup {holding[s] : s \in {t \in Streams : holding[t] # Null}}

\* lap count and progress of a car as the car list of the update shows them
LapIn(u, carId) == u.Cars[carId].Lap
ProgressIn(u, carId) == calculateTrackProgress(u.Cars[carId].Position)
ShownIn(u) ==
  [c \in CarIds |-> [lap |-> LapIn(u, c), progress |-> ProgressIn(u, c)]]
    @@ <<>>

\* the car ranked i-th is not behind the car ranked after it, and the list
\* numbers all the cars 1..n; shown is ShownIn of the list's update
Ranked(shown, list) ==
  /\ Len(list) = numCars
  /\ {list[i].CarId : i \in 1..numCars} = CarIds
  /\ \A i \in 1..numCars :
       /\ list[i].Position = i
       /\ list[i].Laps = shown[list[i].CarId].lap
  /\ \A i \in 1..(numCars - 1) :
       LET a == shown[list[i].CarId]
           b == shown[list[i + 1].CarId]
       IN \/ a.lap > b.lap
          \/ a.lap = b.lap /\ a.progress >= b.progress

RankIn(list, carId) == CHOOSE i \in 1..Len(list) : list[i].CarId = carId

\* C17: both interval lists of every update hold all the cars, numbered
\* 1..n, by lap count descending and, for equal lap counts, by progress
\* descending, in the same order; cars with (lap, progress) = (2, 6/12),
\* (2, 10/12) and (1, 11/12), the claim's (2, 0.5), (2, 0.9) and (1, 0.99),
\* are ranked second of them, first of them and third of them.
C17_Leaderboard ==
  \A u \in InFlight :
    \A shown \in {ShownIn(u)} :
      /\ Ranked(shown, u.ToLeader)
      /\ Ranked(shown, u.ForPosition)
      /\ \A i \in 1..numCars : u.ToLeader[i].CarId = u.ForPosition[i].CarId
      /\ \A x, y, z \in CarIds :
           (/\ shown[x] = [lap |-> 2, progress |-> 6]
            /\ shown[y] = [lap |-> 2, progress |-> 10]
            /\ shown[z] = [lap |-> 1, progress |-> 11])
             => /\ RankIn(u.ToLeader, y) < RankIn(u.ToLeader, x)
                /\ RankIn(u.ToLeader, x) < RankIn(u.ToLeader, z)

\* the subscriber's channel holds an update for the claim's example: car A
\* at (2, 6/12), car B at (2, 10/12), car C at (1, 11/12), listed B, A, C
C17_Witness ==
  \E i \in 1..Len(mailbox["s1"]) :
    LET u == mailbox["s1"][i]
    IN /\ LapIn(u, "A") = 2 /\ ProgressIn(u, "A") = 6
       /\ LapIn(u, "B") = 2 /\ ProgressIn(u, "B") = 10
       /\ LapIn(u, "C") = 1 /\ ProgressIn(u, "C") = 11
       /\ u.ToLeader[1].CarId = "B" /\ u.ForPosition[1].CarId = "B"
       /\ u.ToLeader[2].CarId = "A" /\ u.ForPosition[2].CarId = "A"
       /\ u.ToLeader[3].CarId = "C" /\ u.ForPosition[3].CarId = "C"

\* (aheadLap - lap) + (aheadProgress - progress) in float32
Gap(ahead, behind) ==
  F32((ahead.lap - behind.lap) * F32Unit
        + F32(F32Progress(ahead.progress) - F32Progress(behind.progress)))

\* C18: in every update the interval to the leader of the car ranked i-th
\* is (leaderLap - lap) + (leaderProgress - progress), its interval to the
\* car ahead is the same expression with the car ranked (i-1)-th, and the
\* first car has interval 0 in both lists.
C18_Intervals ==
  \A u \in InFlight :
    \A shown \in {ShownIn(u)} :
      /\ u.ToLeader[1].Interval = 0
      /\ u.ForPosition[1].Interval = 0
      /\ \A i \in 1..Len(u.ToLeader) :
           u.ToLeader[i].Interval =
             Gap(shown[u.ToLeader[1].CarId], shown[u.ToLeader[i].CarId])
      /\ \A i \in 2..Len(u.ForPosition) :
           u.ForPosition[i].Interval =
             Gap(shown[u.ForPosition[i - 1].CarId],
                 shown[u.ForPosition[i].CarId])

\* the stream has taken over an update in which the third car is 11/12 lap
\* behind the leader and 7/12 lap behind the second, who is 4/12 behind
C18_Witness ==
  /\ holding["s1"] # Null
  /\ LET first == [lap |-> 2, progress |-> 10]
         second == [lap |-> 2, progress |-> 6]
         third == [lap |-> 1, progress |-> 11]
     IN /\ holding["s1"].ToLeader[2].Interval = Gap(first, second)
        /\ holding["s1"].ForPosition[2].Interval = Gap(first, second)
        /\ holding["s1"].ToLeader[3].Interval = Gap(first, third)
        /\ holding["s1"].ForPosition[3].Interval = Gap(second, third)
        /\ Gap(first, second) = 44739240
        /\ Gap(first, third) = 123032912
        /\ Gap(second, third) = 78293672
  /\ LapIn(holding["s1"], holding["s1"].ToLeader[3].CarId) = 1


(***************************************************************************)
(* Properties of the end of the race                                       *)
(***************************************************************************)
\* what a client sees of a car
Shown(state) ==
  [Position |-> state.Position, Heading |-> state.Heading,
   Speed |-> state.Speed, Lap |-> state.Lap, Status |-> state.Status]

\* C19: once the race status is "finished" it stays "finished", and no step
\* after that changes the position, heading, speed, lap count or status of
\* any car.
C19_FrozenAfterFinish ==
  [][ raceStatus.Status = "finished"
        => /\ raceStatus'.Status = "finished"
           /\ \A c \in CarIds : Shown(carStates'[c]) = Shown(carStates[c])
    ]_vars


\* C20: in the lap-based race the race status is "racing" exactly as long
\* as no car has counted totalLaps laps, so it becomes "finished" in the
\* tick in which the first car counts its last lap; a car that has counted
\* totalLaps laps has status FINISHED from that same tick on; and every
\* update shows the same: one that shows a car with totalLaps laps shows
\* that car FINISHED and the race "finished", any other shows "racing".
C20_FinishInTheTick ==
  /\ raceStatus.Status = "racing"
       <=> \A c \in CarIds : carStates[c].Lap < totalLaps
  /\ raceStatus.Status \in {"racing", "finished"}
  /\ \A c \in CarIds :
       carStates[c].Lap >= totalLaps => carStates[c].Status = "FINISHED"
  /\ \A u \in InFlight :
       /\ u.RaceStatus.Status = "racing"
            <=> \A c \in CarIds : u.Cars[c].Lap < totalLaps
       /\ u.RaceStatus.Status \in {"racing", "finished"}
       /\ \A c \in CarIds :
            u.Cars[c].Lap >= totalLaps => u.Cars[c].Status = "FINISHED"

\* the subscriber's channel holds the update of the tick in which car E
\* counted its third lap, the newest in the channel
C20_Witness ==
  /\ tpc = "wait"
  /\ mailbox["s1"] # <<>>
  /\ LET u == mailbox["s1"][Len(mailbox["s1"])]
     IN /\ u.GameTick = gameTick
        /\ u.Cars["E"].Lap = totalLaps
        /\ u.Cars["E"].Status = "FINISHED"
        /\ u.RaceStatus.Status = "finished"
  /\ \A i \in 1..(Len(mailbox["s1"]) - 1) :
       mailbox["s1"][i].RaceStatus.Status = "racing"


(***************************************************************************)
(* Properties of CheckIn, checked under SpecCheckIn                        *)
(***************************************************************************)
\* the step in which the CheckIn call of h answers
CheckInAnswers(h) ==
  cpc[h] \in {"checkInTrack", "checkInReject"} /\ cpc'[h] = "idle"

IsCheckInAnswer(r) == "Message" \in DOMAIN r

\* C21: CheckIn answers accepted=true exactly when the car id is in the
\* roster or is the spectator id; for a roster id the token is the car's
\* stored token and IsSpectator is false, for the spectator id the token is
\* the spectator token and IsSpectator is true, for any other id the answer
\* is accepted=false, "Car ID not found", with an empty token.
C21_CheckInAnswer ==
  [][ \A h \in Callers :
        CheckInAnswers(h)
          => LET id == creq[h].carId
                 r == resp'[h]
             IN /\ r.Accepted <=> (id \in CarIds \/ id = observersID)
                /\ id \in CarIds
                     => r.AuthToken = authTokens[id] /\ ~r.IsSpectator
                /\ id = observersID
                     => r.AuthToken = observerstoken /\ r.IsSpectator
                /\ (id \notin CarIds /\ id # observersID)
                     => /\ r.Message = "Car ID not found"
                        /\ r.AuthToken = ""
    ]_vars

\* one client has been welcomed as spectator, the other as car A and is
\* about to be turned down in its next call
C21_Witness ==
  /\ IsCheckInAnswer(resp["h1"]) /\ IsCheckInAnswer(resp["h2"])
  /\ resp["h1"].For = observersID /\ resp["h1"].IsSpectator
  /\ resp["h1"].AuthToken = observerstoken
  /\ resp["h2"].For = "A" /\ resp["h2"].AuthToken = TokenOf("A")
  /\ cpc["h2"] = "checkInReject"

\* C22: CheckIn is read-only and idempotent: no step of a CheckIn call
\* changes the lock, the tokens, the staged inputs, the car states, the
\* penalties, the subscriber set or the tick counter, and two answers for
\* the same car id, whenever they were given, agree in every field.
C22_CheckInReadOnly ==
  [][ /\ \A h \in Callers :
           (/\ cpc'[h] # cpc[h]
            /\ \/ cpc[h] \in {"checkInTrack", "checkInReject"}
               \/ cpc'[h] \in {"checkInTrack", "checkInReject"})
             => UNCHANGED <<mu, serverVars, chanVars, tickVars>>
      /\ \A g, h \in Callers :
           (/\ IsCheckInAnswer(resp'[g]) /\ IsCheckInAnswer(resp'[h])
            /\ resp'[g].For = resp'[h].For)
             => resp'[g] = resp'[h]
      /\ \A h \in Callers :
           (/\ CheckInAnswers(h) /\ IsCheckInAnswer(resp[h])
            /\ resp[h].For = creq[h].carId)
             => resp'[h] = resp[h]
    ]_vars

\* both clients hold an answer for car A, the first given before the first
\* tick and the second after the last, with an input for car A staged
C22_Witness ==
  /\ IsCheckInAnswer(resp["h1"]) /\ IsCheckInAnswer(resp["h2"])
  /\ resp["h1"].For = "A" /\ resp["h2"].For = "A"
  /\ gameTick = MaxTick
  /\ playerInput["A"] # NoInput
  /\ cpc["h1"] = "idle" /\ cpc["h2"] = "idle"

(***************************************************************************)
(* Properties of the tick's snapshot, checked under SpecPublish            *)
(***************************************************************************)
\* the subscribers whose channel has room for one more update
WithRoom == {s \in clients : Len(mailbox[s]) < chanCap}

\* C24: a tick raises the tick counter by exactly one and nothing else
\* changes it; the tick builds one snapshot, which carries the counter's new
\* value, one entry for every roster car and one for every penalty that is
\* active after the tick, and every subscriber registered at the tick is
\* offered that snapshot: it is appended to each channel that has room and
\* no channel gets anything else.
C24_OneSnapshotPerTick ==
  [][/\ gameTick' # gameTick =>
          tpc = "wait" /\ tpc' = "body" /\ gameTick' = gameTick + 1
     /\ tpc = "wait" /\ tpc' = "body" => gameTick' = gameTick + 1
     /\ \A s \in Streams :
          Len(mailbox'[s]) > Len(mailbox[s]) =>
             /\ TickBodyStep
             /\ s \in WithRoom
             /\ Len(mailbox'[s]) = Len(mailbox[s]) + 1
     /\ TickBodyStep =>
          \E u \in {mailbox'[s][Len(mailbox'[s])] : s \in WithRoom} \cup
                   (IF WithRoom = {} THEN {Null} ELSE {}) :
            /\ \A s \in WithRoom : mailbox'[s] = Append(mailbox[s], u)
            /\ \A s \in Streams \ WithRoom : mailbox'[s] = mailbox[s]
            /\ WithRoom # {} =>
                 /\ u.GameTick = gameTick'
                 /\ DOMAIN u.Cars = CarIds
                 /\ \A c \in CarIds : u.Cars[c].CarId = c
                 /\ DOMAIN u.Penalties = DOMAIN penalties'
                 /\ \A c \in DOMAIN penalties' :
                      /\ u.Penalties[c].CarId = c
                      /\ u.Penalties[c].RemainingPenalty =
                           penalties'[c].RemainingPenalty
    ]_vars

\* both subscribers hold the snapshot of the tick that just ended, and it
\* lists a penalty
C24_Witness ==
  /\ clients = Streams /\ tpc = "wait" /\ gameTick > 0
  /\ \A s \in Streams :
       /\ mailbox[s] # <<>>
       /\ mailbox[s][Len(mailbox[s])].GameTick = gameTick
       /\ mailbox[s][Len(mailbox[s])] = mailbox["s1"][Len(mailbox["s1"])]
       /\ DOMAIN mailbox[s][Len(mailbox[s])].Penalties # {}

(***************************************************************************)
(* Properties of two clients and the tick, checked under SpecPair          *)
(***************************************************************************)
\* the staged inputs after the staging write of request r
Staged(inputs, r) ==
  MapAssign(inputs, r.carId,
            Overwrite(IF r.carId \in DOMAIN inputs THEN inputs[r.carId]
                      ELSE NoInput,
                      StagedFrom(r)))

\* C25: the car states and penalties after a tick are those that the loop
\* over the roster, from the first car to the last, computes from the
\* state before the tick, dt and the staged inputs; a staging write changes
\* the entry of its own car only, and whenever two calls for different
\* cars are pending together the staged inputs after both are the same in
\* either order.
C25_OrderIndependent ==
  [][/\ TickBodyStep =>
          \E after \in {CarLoop([states |-> carStates, pens |-> penalties,
                                 maxLap |-> 0, maxProgress |-> 0], 1)} :
            carStates' = after.states /\ penalties' = after.pens
     /\ \A h \in Callers :
          cpc[h] = "write" /\ cpc'[h] # "write" =>
            /\ playerInput' = Staged(playerInput, creq[h])
            /\ \A c \in CarIds \ {creq[h].carId} :
                 playerInput'[c] = playerInput[c]
            /\ \A g \in Callers \ {h} :
                 cpc[g] = "lock" /\ creq[g].carId # creq[h].carId =>
                   Staged(Staged(playerInput, creq[h]), creq[g])
                     = Staged(Staged(playerInput, creq[g]), creq[h])
    ]_vars

\* both clients' inputs, for different cars, were staged between two ticks,
\* car D's after car E's, and the tick that followed has moved both cars
C25_Witness ==
  /\ gameTick = 1 /\ tpc = "wait"
  /\ playerInput["E"].steering = 2 /\ playerInput["D"].throttle = 1
  /\ carStates["E"].Speed > 0 /\ carStates["D"].Speed > 0
  /\ cpc["h1"] = "idle" /\ cpc["h2"] = "ackAccepted"

(***************************************************************************)
(* Properties of the penalty timer, checked under SpecPenalty and          *)
(* SpecPenaltyLive                                                         *)
(***************************************************************************)
\* C26: a car that is serving a penalty or has finished once the tick has
\* run its penalty timer is not integrated in that tick: its position,
\* heading, speed, lap and last progress stay as they were, whatever input
\* is staged for it.
C26_NotIntegrated ==
  [][TickBodyStep =>
       \A c \in CarIds :
         \A pen \in {PenaltyStep(carStates[c], penalties, dt)} :
           pen.state.Status # "RACING" =>
             /\ carStates'[c].Status = pen.state.Status
             /\ carStates'[c].Position = carStates[c].Position
             /\ carStates'[c].Heading = carStates[c].Heading
             /\ carStates'[c].Speed = carStates[c].Speed
             /\ carStates'[c].Lap = carStates[c].Lap
             /\ carStates'[c].lastProgress = carStates[c].lastProgress
    ]_vars

\* car E, in motion and with the throttle staged, has just been held by a
\* tick in which it served a penalty
C26_Witness ==
  /\ tpc = "wait"
  /\ carStates["E"].Status = "SERVINGPENALTY"
  /\ carStates["E"].Speed > 0
  /\ playerInput["E"].throttle = 1

\* C27: each tick takes its elapsed milliseconds off the remaining duration
\* of every penalty; while the remainder is positive the penalty stays and
\* its car is serving it; in the tick in which the remainder reaches zero
\* or less the penalty is removed and the car is integrated as a racing
\* car in that same tick; and every penalty is removed eventually.
C27_PenaltyServed ==
  /\ [][TickBodyStep =>
          \A c \in DOMAIN penalties :
            IF penalties[c].RemainingPenalty - dt > 0
            THEN /\ c \in DOMAIN penalties'
                 /\ penalties'[c].RemainingPenalty =
                      penalties[c].RemainingPenalty - dt
                 /\ carStates'[c].Status = "SERVINGPENALTY"
            ELSE /\ c \notin DOMAIN penalties'
                 /\ carStates'[c] =
                      FinishCheck(updateCarPhysics(
                        [carStates[c] EXCEPT !.Status = "RACING"],
                        playerInput[c], dt))
       ]_vars
  /\ \A c \in PenaltyCars :
       (c \in DOMAIN penalties) ~> (c \notin DOMAIN penalties)

\* a tick is about to take the last 500 ms off the penalty of car E, which
\* an earlier tick has brought down from 1000 ms
C27_Witness ==
  /\ tpc = "body" /\ dt = 500
  /\ "E" \in DOMAIN penalties
  /\ penalties["E"].RemainingPenalty = 500
  /\ carStates["E"].Status = "SERVINGPENALTY"

(***************************************************************************)
(* Properties of updateCarPhysics, checked under SpecPhysics               *)
(***************************************************************************)
\* C28: a tick changes the speed of a car that it integrates along exactly
\* one branch: by +acceleration*throttle*dt if the staged throttle is
\* positive, whatever the brake; by -brakeForce*brake*dt if the throttle is
\* not positive and the brake is; by -friction*dt if neither is positive;
\* and the new speed is that result clamped to [0, maxSpeed].
C28_OneBranch ==
  [][TickBodyStep =>
       \A c \in Integrated :
         LET in == playerInput[c]
             v == carStates[c].Speed
             Clamped(x) == IF x < 0 THEN 0
                           ELSE IF x > maxSpeed * Milli THEN maxSpeed * Milli
                           ELSE x
         IN /\ in.throttle > 0 =>
                 carStates'[c].Speed =
                   Clamped(v + acceleration * in.throttle * dt)
            /\ ~(in.throttle > 0) /\ in.brake > 0 =>
                 carStates'[c].Speed =
                   Clamped(v - brakeForce * in.brake * dt)
            /\ ~(in.throttle > 0) /\ ~(in.brake > 0) =>
                 carStates'[c].Speed = Clamped(v - friction * dt)
    ]_vars

\* car E, with throttle and brake both staged at 1, has gone from 250 to
\* maxSpeed in one tick and stayed there in the next
C28_Witness ==
  /\ tpc = "wait" /\ gameTick = MidRaceTick + 2
  /\ playerInput["E"].throttle = 1 /\ playerInput["E"].brake = 1
  /\ carStates["E"].Speed = maxSpeed * Milli
  /\ carStates["E"].Heading = 90 * Milli
  /\ carStates["E"].Position.Y
       = OnGrid("E").Position.Y + 2 * 150 * Milli

\* C29: a tick changes a car's heading only if the car's speed after the
\* tick's clamping is above 10 and the steering staged for the car is not
\* zero.
C29_SteerOnlyAtSpeed ==
  [][TickBodyStep =>
       \A c \in CarIds :
         carStates'[c].Heading # carStates[c].Heading =>
           /\ c \in Integrated
           /\ carStates'[c].Speed > 10 * Milli
           /\ playerInput[c].steering # 0
    ]_vars

\* car E, with steering staged, was at 35 before the first tick, whose
\* friction brought it to exactly 10: its heading is the one it had
C29_Witness ==
  /\ tpc = "wait" /\ gameTick = MidRaceTick + 1
  /\ playerInput["E"].steering = 1
  /\ playerInput["E"].throttle = 0 /\ playerInput["E"].brake = 0
  /\ carStates["E"].Speed = 10 * Milli
  /\ carStates["E"].Heading = 90 * Milli

\* C30: a tick that integrates a car which heads 0 degrees, with throttle 1,
\* steering 0 and brake 0 staged, leaves the heading at 0 and the Y
\* coordinate as it is, does not lower the X coordinate, and raises the speed
\* by acceleration*dt or, where that would pass maxSpeed, to exactly
\* maxSpeed, where it stays; so it is on every tick for a car that starts
\* at heading 0 and speed 0 with that input.
C30_StraightLine ==
  [][TickBodyStep =>
       \A c \in Integrated :
         ( /\ carStates[c].Heading = 0
           /\ playerInput[c].throttle = 1
           /\ playerInput[c].steering = 0
           /\ playerInput[c].brake = 0 ) =>
           /\ carStates'[c].Heading = 0
           /\ carStates'[c].Position.Y = carStates[c].Position.Y
           /\ carStates'[c].Position.X >= carStates[c].Position.X
           /\ carStates'[c].Speed =
                IF carStates[c].Speed + acceleration * dt < maxSpeed * Milli
                THEN carStates[c].Speed + acceleration * dt
                ELSE maxSpeed * Milli
    ]_vars

\* car E after four ticks from rest with throttle 1: it went at 100, 200,
\* 300 and 300 and so has covered 50 + 100 + 150 + 150 along X
C30_Witness ==
  /\ tpc = "wait" /\ gameTick = MidRaceTick + 4
  /\ playerInput["E"].throttle = 1 /\ playerInput["E"].steering = 0
  /\ playerInput["E"].brake = 0
  /\ carStates["E"].Speed = maxSpeed * Milli
  /\ carStates["E"].Heading = 0
  /\ carStates["E"].Position.Y = OnGrid("E").Position.Y
  /\ carStates["E"].Position.X = OnGrid("E").Position.X + 450 * Milli

(***************************************************************************)
(* Properties of loadTrackFromCSV, checked under SpecLoad                  *)
(***************************************************************************)
\* the records of the input that are parsed into track points
ValidSamples ==
  {k \in DOMAIN loading.records : loading.records[k].fields >= 4}

\* C31: once the loader has ended, it has returned boundaries with exactly
\* one point per valid sample on the left and on the right if the input has
\* at least one valid sample, a single one included, and it has ended
\* fatally only if the input has none.
C31_BoundaryPerSample ==
  "records" \in DOMAIN loading /\ loading.pc \in {"returned", "fatal", "panic"}
    => IF ValidSamples # {}
       THEN /\ loading.pc = "returned"
            /\ Len(loading.left) = Cardinality(ValidSamples)
            /\ Len(loading.right) = Cardinality(ValidSamples)
            /\ \A k \in DOMAIN loading.left :
                 loading.left[k] # Null /\ loading.right[k] # Null
       ELSE loading.pc = "fatal"

(***************************************************************************)
(* Properties of calculateTrackProgress, checked under SpecPhysics, where  *)
(* every car is racing and so has the progress of its position             *)
(***************************************************************************)
\* C32: the progress of every car is the index of a centerline point, hence
\* below the point count and, divided by it, in [0,1); no centerline point is
\* closer to the car's position, by the squared distance, than the point of
\* that index, and none of a lower index is as close.  A position that is
\* NaN has the index 0.
C32_ClosestPoint ==
  \A c \in CarIds :
    \A p \in {carStates[c].lastProgress}, pos \in {carStates[c].Position} :
      /\ p \in 0..(TrackLen - 1)
      /\ IF IsNaN(pos.X) \/ IsNaN(pos.Y) THEN p = 0
         ELSE \A j \in 1..TrackLen :
                \/ CenterDist(pos, j) > CenterDist(pos, p + 1)
                \/ CenterDist(pos, j) = CenterDist(pos, p + 1) /\ j >= p + 1

\* a tick has integrated car D, which stands on the grid equally close to
\* the first and to the last centerline point: it has the progress of the
\* first
C32_Witness ==
  /\ gameTick > MidRaceTick /\ tpc = "wait"
  /\ CenterDist(carStates["D"].Position, 1)
       = CenterDist(carStates["D"].Position, TrackLen)
  /\ \A j \in 1..TrackLen :
       CenterDist(carStates["D"].Position, j)
         >= CenterDist(carStates["D"].Position, 1)
  /\ carStates["D"].lastProgress = 0

(***************************************************************************)
(* Properties of the lock in StreamRaceUpdates, checked under SpecStream   *)
(***************************************************************************)
\* C33: a stream handler holds the server lock exactly while it is in its
\* register or its deregister critical section: never while it waits on
\* its mailbox and never while it sends on the transport.
C33_LockOnlyToRegister ==
  \A s \in Streams :
    /\ mu = s <=> spc[s] \in {"register", "deregister"}
    /\ spc[s] \in {"checkin", "receive", "send"} => mu # s

\* a tick runs under the lock while one handler waits on its empty mailbox
\* and the other is sending an update on the transport
C33_Witness ==
  /\ mu = "tick" /\ tpc = "body"
  /\ \E s, t \in Streams :
       /\ spc[s] = "receive" /\ mailbox[s] = <<>> /\ s \in clients
       /\ spc[t] = "send" /\ holding[t] # Null

(***************************************************************************)
(* Properties of the staged input over several ticks, checked under        *)
(* SpecDrive                                                               *)
(***************************************************************************)
\* C34: no step of a tick changes a staged input, and every tick integrates
\* every racing car with the input of the latest accepted call for it,
\* however many ticks have passed since that call.
C34_InputKept ==
  [][ /\ (tpc' # tpc \/ gameTick' # gameTick) => playerInput' = playerInput
      /\ TickBodyStep
           => \A c \in Integrated :
                /\ playerInput'[c] = StagedFrom([input |-> lastAccepted[c]])
                /\ carStates'[c] =
                     FinishCheck(updateCarPhysics(carStates[c],
                                                  lastAccepted[c], dt))
    ]_vars

\* the only call of the run staged full throttle for car E before the first
\* tick; the second tick has ended, and E has the speed of two ticks of
\* full throttle
C34_Witness ==
  /\ tpc = "wait" /\ gameTick = 2
  /\ calls = 1 /\ cpc["h1"] = "idle"
  /\ resp["h1"] # Null /\ resp["h1"].Accepted /\ resp["h1"].GameLoop = 0
  /\ playerInput["E"].throttle = 1 /\ playerInput["E"].steering = 0
  /\ \E d \in DtValues :
       carStates["E"].Speed = 2 * acceleration * d

(***************************************************************************)
(* Properties of a finished car, checked under SpecPenalty                 *)
(***************************************************************************)
\* C35: no step changes the status, the position, the speed or the lap
\* count of a car whose status is FINISHED, whether or not there is a
\* penalty for that car.
C35_FinishedForGood ==
  [][ \A c \in CarIds :
        carStates[c].Status = "FINISHED"
          => /\ carStates'[c].Status = "FINISHED"
             /\ carStates'[c].Position = carStates[c].Position
             /\ carStates'[c].Speed = carStates[c].Speed
             /\ carStates'[c].Lap = carStates[c].Lap
    ]_vars

(***************************************************************************)
(* Properties of the leaderboard at the finish, checked under SpecPodium   *)
(***************************************************************************)
\* C36: the update of a tick in which a car finishes lists every car that
\* had finished in an earlier tick ahead of that car, in both lists.
C36_FinishingOrder ==
  [][ TickBodyStep
        => \A x, y \in CarIds :
             (/\ carStates[x].Status = "FINISHED"
              /\ carStates[y].Status # "FINISHED"
              /\ carStates'[y].Status = "FINISHED")
               => \A s \in clients :
                    \A i \in 1..Len(mailbox'[s]) :
                      \A u \in {mailbox'[s][i]} :
                        u.GameTick = gameTick
                          => /\ RankIn(u.ToLeader, x) < RankIn(u.ToLeader, y)
                             /\ RankIn(u.ForPosition, x)
                                  < RankIn(u.ForPosition, y)
    ]_vars

(***************************************************************************)
(* Properties of the lap count at the finish, checked under SpecWatch (no  *)
(* penalty is issued)                                                      *)
(***************************************************************************)
\* C37: no car has counted more than totalLaps laps, and every update shows
\* a car FINISHED exactly if it shows it with totalLaps laps.
C37_LapsToTarget ==
  /\ penalties = <<>>
  /\ \A c \in CarIds : carStates[c].Lap <= totalLaps
  /\ \A u \in InFlight :
       \A c \in CarIds :
         /\ u.Cars[c].Lap <= totalLaps
         /\ u.Cars[c].Status = "FINISHED" <=> u.Cars[c].Lap = totalLaps

\* the subscriber's channel holds the update of the tick in which car E
\* counted its last lap and, as its newest, that of a later tick: both show
\* E FINISHED with totalLaps laps and car A racing in its first lap
C37_Witness ==
  /\ tpc = "wait"
  /\ \E i, j \in 1..Len(mailbox["s1"]) :
       /\ i < j /\ j = Len(mailbox["s1"])
       /\ mailbox["s1"][j].GameTick = gameTick
       /\ \A k \in {i, j} :
            /\ mailbox["s1"][k].Cars["E"].Status = "FINISHED"
            /\ mailbox["s1"][k].Cars["E"].Lap = totalLaps
            /\ mailbox["s1"][k].Cars["A"].Status = "RACING"
            /\ mailbox["s1"][k].Cars["A"].Lap = 0

(***************************************************************************)
(* Properties of the maps of the server, checked under Spec                *)
(***************************************************************************)
\* C38: the car states, the staged inputs and the tokens have exactly the
\* roster ids as their keys in every state, and no entry is nil.
C38_RosterKeys ==
  /\ DOMAIN carStates = CarIds
  /\ DOMAIN playerInput = CarIds
  /\ DOMAIN authTokens = CarIds
  /\ \A c \in CarIds :
       /\ carStates[c] # Null /\ carStates[c].CarId = c
       /\ playerInput[c] # Null
       /\ authTokens[c] = TokenOf(c)

\* a tick has run after the input of a call for car A was staged, and a
\* call for the spectator id with the spectator token is being turned down
C38_Witness ==
  /\ tpc = "wait" /\ gameTick >= 1
  /\ resp["h1"] # Null /\ resp["h1"].Accepted
  /\ playerInput["A"] # NoInput
  /\ resp["h1"].GameLoop < gameTick
  /\ cpc["h2"] = "ackRejected"
  /\ creq["h2"].carId = observersID /\ creq["h2"].token = observerstoken

(***************************************************************************)
(* Properties of the intervals to the leader, checked under SpecIntervals  *)
(***************************************************************************)
\* the sum of the intervals to the car ahead of the positions 1..i
RECURSIVE SumAhead(_, _)
SumAhead(list, i) ==
  IF i = 0 THEN 0 ELSE SumAhead(list, i - 1) + list[i].Interval

\* the largest float32 rounding error of one addition or subtraction with a
\* result below 4: half of 2^-22
HalfUlp == F32Unit \div 2^23

\* C39 as stated: in every update the interval to the leader is 0 for
\* position 1, at least 0 for every car, does not decrease with the
\* position, and is equal to the sum of the intervals to the car ahead of
\* the positions up to the car's.
C39_ExactSum ==
  \A u \in InFlight :
    /\ u.ToLeader[1].Interval = 0
    /\ \A i \in 1..Len(u.ToLeader) :
         /\ u.ToLeader[i].Interval >= 0
         /\ i > 1 => u.ToLeader[i].Interval >= u.ToLeader[i - 1].Interval
         /\ u.ToLeader[i].Interval = SumAhead(u.ForPosition, i)

\* C39, amended: in every update the interval to the leader is 0 for
\* position 1, at least 0 for every car, does not decrease with the
\* position, and differs from the sum of the intervals to the car ahead of
\* the positions up to the car's by the float32 rounding errors of the
\* additions and subtractions only: two for the interval to the leader and
\* two for every interval to a car ahead, each of 2^-23 at most.
C39_IntervalsToLeader ==
  \A u \in InFlight :
    /\ u.ToLeader[1].Interval = 0
    /\ \A i \in 1..Len(u.ToLeader) :
         /\ u.ToLeader[i].Interval >= 0
         /\ u.ForPosition[i].Interval >= 0
         /\ i > 1 => u.ToLeader[i].Interval >= u.ToLeader[i - 1].Interval
         /\ \A sum \in {SumAhead(u.ForPosition, i)} :
              /\ u.ToLeader[i].Interval - sum <= 2 * i * HalfUlp
              /\ sum - u.ToLeader[i].Interval <= 2 * i * HalfUlp

\* the stream has taken over an update whose leader is in an earlier part of
\* a later lap than the second car, and in which the interval to the leader
\* of one car is the sum of the intervals to the cars ahead and that of
\* another car is not
C39_Witness ==
  /\ holding["s1"] # Null
  /\ \E u \in {holding["s1"]} :
       /\ ProgressIn(u, u.ToLeader[1].CarId)
            < ProgressIn(u, u.ToLeader[2].CarId)
       /\ u.ToLeader[2].Interval > 0
       /\ \E i, j \in 3..Len(u.ToLeader) :
            /\ u.ToLeader[i].Interval > u.ToLeader[2].Interval
            /\ u.ToLeader[i].Interval = SumAhead(u.ForPosition, i)
            /\ u.ToLeader[j].Interval # SumAhead(u.ForPosition, j)

(***************************************************************************)
(* Properties of the lock over all the handlers, checked under             *)
(* SpecLockLive                                                            *)
(***************************************************************************)
\* C40: the lock is taken only when it is free; whoever holds it is between
\* its s.mu.Lock() and its s.mu.Unlock(), where it waits for nothing, and
\* nobody is past its unlock, waiting or returned, with the lock in hand;
\* the lock is free again and again, and as long as ticks are due the loop
\* gets it.
C40_NoDeadlock ==
  /\ [][ /\ (mu' # mu /\ mu' # "free") => mu = "free"
         /\ mu' = "tick" <=> tpc' = "body"
         /\ \A h \in Callers : mu' = h <=> cpc'[h] = "write"
         /\ \A s \in Streams :
              mu' = s <=> spc'[s] \in {"register", "deregister"}
         /\ ~panicked'
     ]_vars
  /\ []<>(mu = "free")
  /\ (tpc = "wait" /\ gameTick < MaxLockTick) ~> (mu = "tick")

\* the loop holds the lock for a tick while the input client waits for the
\* lock, the other client is in between the two read sections of a CheckIn
\* and the stream handler waits to take the lock for its deregistration
C40_Witness ==
  /\ mu = "tick" /\ tpc = "body"
  /\ cpc["h1"] = "lock"
  /\ cpc["h2"] = "checkInTrack"
  /\ spc["s1"] = "cleanup"

====
